---- MODULE Spec2Model ----
(***************************************************************************)
(* A model of github_repo_user_report.py: GitHubRepoUserAnalyzer, its      *)
(* six fetch_* methods, analyze_activity and main.  Every HTTP request of  *)
(* a fetch is one step; the response of the remote API is the step's       *)
(* input.  Spec is one analyzer whose analyze_activity is called           *)
(* repeatedly and whose requests are all answered; MainSpec is one run of  *)
(* main, in which a request may also fail to be answered.                  *)
(***************************************************************************)
EXTENDS Integers, Sequences, FiniteSets, TLC

(***************************************************************************)
(* Bounds of the model.                                                    *)
(***************************************************************************)
\* records (pull requests, reviews, issues, events, comments, commits) the
\* remote API returns to one analyzer, beyond the hits of its searches
MaxItems == 2
\* calls of analyze_activity on one analyzer
MaxCalls == 2
\* calendar days 0..MaxDay, and the largest days argument
MaxDay == 1
\* largest argument _get_pr_size is applied to in SizeSpec
MaxChanges == 1100

\* instants of one day (the resolution of a timestamp inside a day)
TimesOfDay == {0, 1}
DayLen == Cardinality(TimesOfDay)
Days == 0..MaxDay
\* the instant datetime.now() returns: the last instant of the last day
Now == (MaxDay + 1) * DayLen - 1

\* issue and pull request numbers
Numbers == {1, 2}
\* logins the API reports, and the username the analyzer was built with
Logins == {"Alice", "bob"}
Usernames == {"alice"}
PRStates == {"open", "closed"}
AdditionVals == {4, 5}
DeletionVals == {5}
ChangedFilesVals == {3}
CommitVals == {2}
ReviewStates == {"APPROVED"}
EventNames == {"closed", "reopened"}
CommitShas == {"1111111aaa", "2222222bbb"}

(***************************************************************************)
(* Python values.                                                          *)
(***************************************************************************)
\* None, and a present value: `if x:` is Truthy(x)
None == <<>>
Some(x) == <<x>>
Truthy(x) == x /= <<>>

\* a timestamp string "%Y-%m-%dT%H:%M:%SZ" is <<day, time of day>>; the
\* timestamps the API reports are the instants of day 0
TimeStrings == {0} \X TimesOfDay
OptTimeStrings == {None} \cup {Some(t) : t \in TimeStrings}

\* merged_at of a pull request
MergedAtVals == {None, Some(<<0, 1>>)}

\* datetime.strptime(s, "%Y-%m-%dT%H:%M:%SZ") as an instant
strptime(s) == s[1] * DayLen + s[2]

\* timedelta(days=d)
timedelta(d) == d * DayLen

\* str.lower() on the logins and usernames of the model
lower(s) ==
    CASE s = "Alice" -> "alice"
      [] s = "alice" -> "alice"
      [] s = "bob" -> "bob"

Range(s) == {s[i] : i \in 1..Len(s)}

SeqsUpTo(S, n) == UNION {[1..k -> S] : k \in 0..n}

RECURSIVE SumSeq(_)
SumSeq(s) == IF s = <<>> THEN 0 ELSE Head(s) + SumSeq(Tail(s))

\* the title and html_url GitHub reports for issue or pull request n
TitleOf(n) == <<"title", n>>
UrlOf(n) == <<"html_url", n>>

(***************************************************************************)
(* The analyzer's state.                                                   *)
(***************************************************************************)
VARIABLES
    username,       \* self.username
    stats,          \* self.stats
    since_date,     \* self.since_date
    end_date,       \* self.end_date
    pc,             \* the statement analyze_activity is at
    calls,          \* calls of analyze_activity so far
    returned,       \* records the API has returned so far
    page,           \* fetch_user_reviews, fetch_user_issue_comments: page
    items,          \* the search items a fetch still has to visit
    acc,            \* the list a fetch is building
    last,           \* the request answered last, and its response
    prs,            \* analyze_activity: prs
    reviews,        \* analyze_activity: reviews
    closed_issues,  \* analyze_activity: closed_issues
    issue_comments, \* analyze_activity: issue_comments
    changes,        \* SizeSpec: the argument of _get_pr_size
    size            \* SizeSpec: its result

\* the analyzer's repository, its report, and generate_team_index.py
VARIABLES
    owner,          \* self.owner
    repo,           \* self.repo
    html,           \* the document generate_report(format="html") returned
    report_data,    \* what parse_report_file returned for a document
    directory,      \* the files of reports/team
    html_files,     \* main of generate_team_index: the files still to parse
    reports,        \* main of generate_team_index: reports
    index,          \* what generate_index_html wrote
    metrics,        \* get_metric_value: the label mapping it searches
    label_pattern,  \* get_metric_value: its argument
    clean_value,    \* get_metric_value: clean_value
    metric_value,   \* get_metric_value: what it returned
    startdate       \* main: args.startdate

\* the variables analyze_activity and _get_pr_size leave alone
indexer == <<directory, html_files, reports, index>>
lookup == <<metrics, label_pattern, clean_value, metric_value>>
team == <<owner, repo, html, report_data, indexer, lookup, startdate>>

vars == <<username, stats, since_date, end_date, pc, calls, returned, page,
          items, acc, last, prs, reviews, closed_issues, issue_comments,
          changes, size, team>>

SizeClasses == {"xs", "s", "m", "l", "xl", "xxl"}

\* __init__: self.stats; the keys analyze_activity adds later are None
InitStats ==
    [pull_requests_opened |-> <<>>,
     pull_requests_merged |-> <<>>,
     pull_requests_closed |-> <<>>,
     pull_requests_reviewed |-> <<>>,
     issues_opened |-> <<>>,
     issues_closed |-> <<>>,
     issue_comments |-> <<>>,
     commits_authored |-> <<>>,
     review_comments_given |-> 0,
     total_additions |-> 0,
     total_deletions |-> 0,
     total_files_changed |-> 0,
     pr_sizes |-> [c \in SizeClasses |-> 0],
     total_commits_in_prs |-> None,
     total_reviews_given |-> None,
     unique_prs_reviewed |-> None]

(***************************************************************************)
(* _get_pr_size                                                            *)
(***************************************************************************)
GetPrSizeOffByOne(c) ==
    IF c <= 10 THEN "xs"
    ELSE IF c < 30 THEN "s"
    ELSE IF c < 100 THEN "m"
    ELSE IF c < 500 THEN "l"
    ELSE IF c < 1000 THEN "xl"
    ELSE "xxl"

_get_pr_size(c) ==
    IF c < 10 THEN "xs"
    ELSE IF c < 30 THEN "s"
    ELSE IF c < 100 THEN "m"
    ELSE IF c < 500 THEN "l"
    ELSE IF c < 1000 THEN "xl"
    ELSE "xxl"

(***************************************************************************)
(* The remote API.  A response is its status code and its JSON body; a     *)
(* request that fails returns Failure.                                     *)
(***************************************************************************)
Ok(json) == [status_code |-> 200, json |-> json]
Failure == [status_code |-> 403, json |-> <<>>]

\* what the API may still return
Budget == MaxItems - returned

\* GET /search/issues: a page of distinct issues, or of distinct pull requests
SearchItem(n, st) ==
    [number |-> n, title |-> TitleOf(n), html_url |-> UrlOf(n), state |-> st]
\* the issues of the repository: the even numbers are closed
IssueState(n) == IF n % 2 = 0 THEN "closed" ELSE "open"
IssueItems == {SearchItem(n, IssueState(n)) : n \in Numbers}
ClosedItems == {SearchItem(n, "closed") : n \in Numbers}
PullItems == {SearchItem(n, "open") : n \in Numbers}
SearchPages(S, n) ==
    {s \in SeqsUpTo(S, n) :
        \A i, j \in 1..Len(s) : s[i].number = s[j].number => i = j}
SearchResponses(S) == {Failure} \cup {Ok(s) : s \in SearchPages(S, Budget)}

\* GET /repos/{owner}/{repo}/pulls/{n}: a merged pull request is closed
PullRequest(n) ==
    {pr \in [number : {n}, title : {TitleOf(n)}, html_url : {UrlOf(n)},
             state : PRStates, merged_at : MergedAtVals,
             additions : AdditionVals, deletions : DeletionVals,
             changed_files : ChangedFilesVals, commits : CommitVals] :
        Truthy(pr.merged_at) => pr.state = "closed"}
PullResponses(n) ==
    {Failure} \cup (IF Budget > 0 THEN {Ok(pr) : pr \in PullRequest(n)} ELSE {})

\* a request that is not answered: requests.get raises
NoResponse == [status_code |-> 0, json |-> <<>>]

\* a request (the statement that issues it, and its page or the number in
\* its URL) and the response to it
Seen(kind, arg, resp) == [kind |-> kind, arg |-> arg, resp |-> resp]
NoRequest == Seen("none", 0, Failure)

(***************************************************************************)
(* analyze_activity, the pull requests                                     *)
(***************************************************************************)
\* pr_data
PRData(pr) ==
    [number |-> pr.number,
     title |-> pr.title,
     url |-> pr.html_url,
     state |-> pr.state,
     merged_at |-> pr.merged_at,
     additions |-> pr.additions,
     deletions |-> pr.deletions,
     total_changes |-> pr.additions + pr.deletions,
     size |-> _get_pr_size(pr.additions + pr.deletions),
     changed_files |-> pr.changed_files,
     commits |-> pr.commits]

\* the bucket, besides "opened", a pull request is recorded under
BucketStateFirst(pr) ==
    IF pr.state = "closed" THEN "pull_requests_closed"
    ELSE IF Truthy(pr.merged_at) THEN "pull_requests_merged"
    ELSE "none"

Bucket(pr) ==
    IF Truthy(pr.merged_at) THEN "pull_requests_merged"
    ELSE IF pr.state = "closed" THEN "pull_requests_closed"
    ELSE "none"

\* AddPR with the totals added for merged pull requests only
AddPRTotalsOfMerged(st, pr) ==
    LET d == PRData(pr)
        b == Bucket(pr)
        m == IF b = "pull_requests_merged" THEN 1 ELSE 0
    IN [st EXCEPT
          !.pull_requests_opened = Append(@, d),
          !.pr_sizes[d.size] = @ + 1,
          !.pull_requests_merged =
              IF b = "pull_requests_merged" THEN Append(@, d) ELSE @,
          !.pull_requests_closed =
              IF b = "pull_requests_closed" THEN Append(@, d) ELSE @,
          !.total_additions = @ + m * d.additions,
          !.total_deletions = @ + m * d.deletions,
          !.total_files_changed = @ + m * d.changed_files]

\* AddPR with the size counted only when the pull request is not open
AddPRSizeOfFinished(st, pr) ==
    LET d == PRData(pr)
        b == Bucket(pr)
        m == IF b = "none" THEN 0 ELSE 1
    IN [st EXCEPT
          !.pull_requests_opened = Append(@, d),
          !.pr_sizes[d.size] = @ + m,
          !.pull_requests_merged =
              IF b = "pull_requests_merged" THEN Append(@, d) ELSE @,
          !.pull_requests_closed =
              IF b = "pull_requests_closed" THEN Append(@, d) ELSE @,
          !.total_additions = @ + d.additions,
          !.total_deletions = @ + d.deletions,
          !.total_files_changed = @ + d.changed_files]

\* the body of the loop over prs
AddPR(st, pr) ==
    LET d == PRData(pr)
        b == Bucket(pr)
    IN [st EXCEPT
          !.pull_requests_opened = Append(@, d),
          !.pr_sizes[d.size] = @ + 1,
          !.pull_requests_merged =
              IF b = "pull_requests_merged" THEN Append(@, d) ELSE @,
          !.pull_requests_closed =
              IF b = "pull_requests_closed" THEN Append(@, d) ELSE @,
          !.total_additions = @ + d.additions,
          !.total_deletions = @ + d.deletions,
          !.total_files_changed = @ + d.changed_files]

RECURSIVE AddPRs(_, _)
AddPRs(st, list) ==
    IF list = <<>> THEN st ELSE AddPRs(AddPR(st, Head(list)), Tail(list))

\* total_commits_in_prs, a local that starts at 0 in every call
TotalCommitsInPrs(st, list) == SumSeq([i \in 1..Len(list) |-> list[i].commits])

\* the loop over prs and the store of total_commits_in_prs
ProcessPRs(st, list) ==
    [AddPRs(st, list) EXCEPT
        !.total_commits_in_prs = Some(TotalCommitsInPrs(st, list))]

(***************************************************************************)
(* fetch_user_reviews and analyze_activity, the reviews                    *)
(***************************************************************************)
\* GET /repos/{owner}/{repo}/pulls/{n}/reviews; a pending review has no
\* submitted_at.  The reviews of the other user are all submitted at the
\* same instant.
Reviews ==
    {r \in [login : Logins, state : ReviewStates,
            submitted_at : OptTimeStrings] :
        r.login = "bob" => r.submitted_at = Some(<<0, 1>>)}
ReviewsResponses == {Failure} \cup {Ok(s) : s \in SeqsUpTo(Reviews, Budget)}

\* whether a login is the analyzed user's
IsUser(login, user) == lower(login) = lower(user)

\* user_reviews of one pull request, each with pr_number, pr_title, pr_url
UserReviews(list, pr, user) ==
    LET mine == SelectSeq(list, LAMBDA r : IsUser(r.login, user))
    IN [i \in 1..Len(mine) |->
          [login |-> mine[i].login,
           state |-> mine[i].state,
           submitted_at |-> mine[i].submitted_at,
           pr_number |-> pr.number,
           pr_title |-> pr.title,
           pr_url |-> pr.html_url]]

\* whether the loop over reviews reaches the append
KeepReviewNoFilter(review, since) == TRUE

KeepReview(review, since) ==
    IF Truthy(review.submitted_at)
    THEN ~(strptime(review.submitted_at[1]) < since)
    ELSE TRUE

\* review_data
ReviewData(review) ==
    [pr_number |-> review.pr_number,
     pr_title |-> review.pr_title,
     pr_url |-> review.pr_url,
     state |-> review.state,
     submitted_at |-> review.submitted_at]

\* len(set(r["pr_number"] for r in ...))
UniquePRsAsCount(recs) == Len(recs)

UniquePRs(recs) == Cardinality({recs[i].pr_number : i \in 1..Len(recs)})

\* the loop over reviews and the two review counts
ProcessReviews(st, list, since) ==
    LET kept == SelectSeq(list, LAMBDA r : KeepReview(r, since))
        recs == st.pull_requests_reviewed \o
                    [i \in 1..Len(kept) |-> ReviewData(kept[i])]
    IN [st EXCEPT
          !.pull_requests_reviewed = recs,
          !.total_reviews_given = Some(Len(recs)),
          !.unique_prs_reviewed = Some(UniquePRs(recs))]

(***************************************************************************)
(* fetch_user_issues, fetch_user_closed_issues and their loops             *)
(***************************************************************************)
\* issue_data
IssueData(issue) ==
    [number |-> issue.number,
     title |-> issue.title,
     url |-> issue.html_url,
     state |-> issue.state]

ProcessIssues(st, list) ==
    [st EXCEPT !.issues_opened =
        @ \o [i \in 1..Len(list) |-> IssueData(list[i])]]

ProcessClosedIssues(st, list) ==
    [st EXCEPT !.issues_closed =
        @ \o [i \in 1..Len(list) |-> IssueData(list[i])]]

\* GET /repos/{owner}/{repo}/issues/{n}/events.  The events that do not
\* close the issue are all by the same actor at the same instant.
Events ==
    {e \in [event : EventNames, login : Logins, created_at : TimeStrings] :
        e.event /= "closed" => (e.login = "Alice" /\ e.created_at = <<0, 1>>)}
EventsResponses == {Failure} \cup {Ok(s) : s \in SeqsUpTo(Events, Budget)}

\* whether the loop over the events of an issue appends the issue
ClosedByUserAnyActor(events, user, since) ==
    \E i \in 1..Len(events) :
        /\ events[i].event = "closed"
        /\ strptime(events[i].created_at) >= since

ClosedByUser(events, user, since) ==
    \E i \in 1..Len(events) :
        /\ events[i].event = "closed"
        /\ IsUser(events[i].login, user)
        /\ Truthy(events[i].created_at)
        /\ strptime(events[i].created_at) >= since

(***************************************************************************)
(* fetch_user_issue_comments and analyze_activity, the comments            *)
(***************************************************************************)
\* GET /repos/{owner}/{repo}/issues/{n}/comments.  The comments of the
\* other user are all made at the same instant.
Comments ==
    {c \in [login : Logins, created_at : TimeStrings] :
        c.login = "bob" => c.created_at = <<0, 1>>}
CommentsResponses == {Failure} \cup {Ok(s) : s \in SeqsUpTo(Comments, Budget)}

\* user_comments of one issue, each with the issue's number, title, url, state
UserCommentsAllAuthors(list, issue, user) ==
    [i \in 1..Len(list) |->
          [login |-> list[i].login,
           created_at |-> list[i].created_at,
           issue_number |-> issue.number,
           issue_title |-> issue.title,
           issue_url |-> issue.html_url,
           issue_state |-> issue.state]]

UserComments(list, issue, user) ==
    LET mine == SelectSeq(list, LAMBDA c : IsUser(c.login, user))
    IN [i \in 1..Len(mine) |->
          [login |-> mine[i].login,
           created_at |-> mine[i].created_at,
           issue_number |-> issue.number,
           issue_title |-> issue.title,
           issue_url |-> issue.html_url,
           issue_state |-> issue.state]]

\* whether the loop over issue_comments reaches the append
KeepComment(comment, since) ==
    IF Truthy(comment.created_at)
    THEN ~(strptime(comment.created_at) < since)
    ELSE TRUE

\* comment_data
CommentData(comment) ==
    [issue_number |-> comment.issue_number,
     issue_title |-> comment.issue_title,
     issue_url |-> comment.issue_url,
     issue_state |-> comment.issue_state,
     created_at |-> comment.created_at]

ProcessComments(st, list, since) ==
    LET kept == SelectSeq(list, LAMBDA c : KeepComment(c, since))
    IN [st EXCEPT !.issue_comments =
          @ \o [i \in 1..Len(kept) |-> CommentData(kept[i])]]

(***************************************************************************)
(* fetch_user_commits and analyze_activity, the commits                    *)
(***************************************************************************)
Commits == [sha : CommitShas]
CommitsResponses == {Failure} \cup {Ok(s) : s \in SeqsUpTo(Commits, Budget)}

\* commit["sha"][:7]
ShortSha(sha) ==
    CASE sha = "1111111aaa" -> "1111111"
      [] sha = "2222222bbb" -> "2222222"

\* commit_data
CommitData(commit) == [sha |-> ShortSha(commit.sha)]

ProcessCommits(st, list) ==
    [st EXCEPT !.commits_authored =
        @ \o [i \in 1..Len(list) |-> CommitData(list[i])]]

(***************************************************************************)
(* The steps of analyze_activity: one per HTTP request.  The step that     *)
(* receives the last response of a fetch also runs the loop of             *)
(* analyze_activity over the list the fetch returns.                       *)
(***************************************************************************)
\* the repository the analyzer is constructed for
Owners == {"acme", "octo"}
Repos == {"app", "docs"}

\* nothing rendered, scraped or indexed yet
TeamIdle ==
    /\ owner = "acme"
    /\ repo = "app"
    /\ html = None
    /\ report_data = None
    /\ directory = <<>>
    /\ html_files = <<>>
    /\ reports = <<>>
    /\ index = None
    /\ metrics = <<>>
    /\ label_pattern = <<>>
    /\ clean_value = <<>>
    /\ metric_value = None

\* the analyzer after __init__
Constructed ==
    /\ TeamIdle
    /\ username \in Usernames
    /\ stats = InitStats
    /\ since_date = None
    /\ end_date = None
    /\ pc = "idle"
    /\ calls = 0
    /\ returned = 0
    /\ page = 1
    /\ items = <<>>
    /\ acc = <<>>
    /\ last = NoRequest
    /\ prs = <<>>
    /\ reviews = <<>>
    /\ closed_issues = <<>>
    /\ issue_comments = <<>>
    /\ changes = 0
    /\ size = "xs"

Init ==
    /\ Constructed
    /\ startdate = None

\* the end_date argument: None, or the midnight main parses from --startdate
EndDateArgs == {None, Some(strptime(<<MaxDay, 0>>))}

\* analyze_activity(days, end_date) up to the first fetch
analyze_activity(days, arg) ==
    /\ pc \in {"idle", "done"}
    /\ LET e == IF arg = None THEN Now ELSE arg[1]
       IN /\ end_date' = Some(e)
          /\ since_date' = Some(e - timedelta(days))
    /\ calls' = calls + 1
    /\ pc' = "fetch_user_prs"
    /\ page' = 1
    /\ items' = <<>>
    /\ acc' = <<>>
    /\ last' = NoRequest
    /\ prs' = <<>>
    /\ reviews' = <<>>
    /\ closed_issues' = <<>>
    /\ issue_comments' = <<>>
    /\ UNCHANGED <<username, stats, returned, changes, size, team>>

\* a caller of the analyzer: analyze_activity with a positive days
AnalyzeActivity ==
    /\ calls < MaxCalls
    /\ \E days \in 1..MaxDay, arg \in EndDateArgs : analyze_activity(days, arg)

\* fetch_user_prs returns list
ReturnPRs(list) ==
    /\ prs' = list
    /\ stats' = ProcessPRs(stats, list)
    /\ pc' = "fetch_user_reviews"
    /\ page' = 1
    /\ items' = <<>>
    /\ acc' = <<>>
    /\ UNCHANGED <<reviews, closed_issues, issue_comments>>

\* SearchPRs ending analyze_activity after a non-success response
SearchPRsAbortsOnFailure ==
    /\ pc = "fetch_user_prs"
    /\ \E resp \in SearchResponses(PullItems) :
         /\ last' = Seen("fetch_user_prs", 1, resp)
         /\ IF resp.status_code /= 200
            THEN /\ pc' = "done"
                 /\ UNCHANGED <<stats, page, items, acc, prs, reviews,
                                closed_issues, issue_comments>>
            ELSE IF resp.json = <<>>
            THEN ReturnPRs(<<>>)
            ELSE /\ items' = resp.json
                 /\ acc' = <<>>
                 /\ pc' = "pulls"
                 /\ UNCHANGED <<stats, page, prs, reviews, closed_issues,
                                issue_comments>>
    /\ UNCHANGED <<username, since_date, end_date, calls, returned, changes,
                   size, team>>

\* fetch_user_prs: the search request
SearchPRs ==
    /\ pc = "fetch_user_prs"
    /\ \E resp \in SearchResponses(PullItems) :
         /\ last' = Seen("fetch_user_prs", 1, resp)
         /\ IF resp.status_code /= 200 \/ resp.json = <<>>
            THEN ReturnPRs(<<>>)
            ELSE /\ items' = resp.json
                 /\ acc' = <<>>
                 /\ pc' = "pulls"
                 /\ UNCHANGED <<stats, page, prs, reviews, closed_issues,
                                issue_comments>>
    /\ UNCHANGED <<username, since_date, end_date, calls, returned, changes,
                   size, team>>

\* GetPull asking again for a pull request after a non-success response
GetPullRetries ==
    /\ pc = "pulls"
    /\ \E resp \in PullResponses(Head(items).number) :
         LET list == IF resp.status_code = 200
                     THEN Append(acc, resp.json) ELSE acc
         IN /\ returned' = returned + (IF resp.status_code = 200 THEN 1 ELSE 0)
            /\ last' = Seen("pulls", Head(items).number, resp)
            /\ IF resp.status_code /= 200
               THEN UNCHANGED <<stats, pc, page, items, acc, prs, reviews,
                                closed_issues, issue_comments>>
               ELSE IF Tail(items) = <<>>
               THEN ReturnPRs(list)
               ELSE /\ items' = Tail(items)
                    /\ acc' = list
                    /\ UNCHANGED <<stats, pc, page, prs, reviews,
                                   closed_issues, issue_comments>>
    /\ UNCHANGED <<username, since_date, end_date, calls, changes, size, team>>

\* GetPull giving up what it has collected after a non-success response
GetPullForgetsOnFailure ==
    /\ pc = "pulls"
    /\ \E resp \in PullResponses(Head(items).number) :
         LET list == IF resp.status_code = 200
                     THEN Append(acc, resp.json) ELSE <<>>
         IN /\ returned' = returned + (IF resp.status_code = 200 THEN 1 ELSE 0)
            /\ last' = Seen("pulls", Head(items).number, resp)
            /\ IF Tail(items) = <<>>
               THEN ReturnPRs(list)
               ELSE /\ items' = Tail(items)
                    /\ acc' = list
                    /\ UNCHANGED <<stats, pc, page, prs, reviews,
                                   closed_issues, issue_comments>>
    /\ UNCHANGED <<username, since_date, end_date, calls, changes, size, team>>

\* fetch_user_prs: the request for one pull request's details
GetPull ==
    /\ pc = "pulls"
    /\ \E resp \in PullResponses(Head(items).number) :
         LET list == IF resp.status_code = 200
                     THEN Append(acc, resp.json) ELSE acc
         IN /\ returned' = returned + (IF resp.status_code = 200 THEN 1 ELSE 0)
            /\ last' = Seen("pulls", Head(items).number, resp)
            /\ IF Tail(items) = <<>>
               THEN ReturnPRs(list)
               ELSE /\ items' = Tail(items)
                    /\ acc' = list
                    /\ UNCHANGED <<stats, pc, page, prs, reviews,
                                   closed_issues, issue_comments>>
    /\ UNCHANGED <<username, since_date, end_date, calls, changes, size, team>>

\* a page cap of one page more
MaxPagesOffByOne == 3 + 1

\* the page cap of fetch_user_reviews and fetch_user_issue_comments
MaxPages == 3

\* fetch_user_reviews returns list
ReturnReviews(list) ==
    /\ reviews' = list
    /\ stats' = ProcessReviews(stats, list, since_date[1])
    /\ pc' = "fetch_user_issues"
    /\ page' = 1
    /\ items' = <<>>
    /\ acc' = <<>>
    /\ UNCHANGED <<prs, closed_issues, issue_comments>>

\* SearchReviews going on to the next page after a non-success response
SearchReviewsSkipsFailedPage ==
    /\ pc = "fetch_user_reviews"
    /\ page <= MaxPages
    /\ \E resp \in SearchResponses(PullItems) :
         /\ last' = Seen("fetch_user_reviews", page, resp)
         /\ IF resp.status_code /= 200 /\ page + 1 <= MaxPages
            THEN /\ page' = page + 1
                 /\ UNCHANGED <<stats, pc, items, acc, prs, reviews,
                                closed_issues, issue_comments>>
            ELSE IF resp.status_code /= 200 \/ resp.json = <<>>
            THEN ReturnReviews(acc)
            ELSE /\ items' = resp.json
                 /\ pc' = "reviews"
                 /\ UNCHANGED <<stats, page, acc, prs, reviews, closed_issues,
                                issue_comments>>
    /\ UNCHANGED <<username, since_date, end_date, calls, returned, changes,
                   size, team>>

\* fetch_user_reviews: the search request of one page
SearchReviews ==
    /\ pc = "fetch_user_reviews"
    /\ page <= MaxPages
    /\ \E resp \in SearchResponses(PullItems) :
         /\ last' = Seen("fetch_user_reviews", page, resp)
         /\ IF resp.status_code /= 200 \/ resp.json = <<>>
            THEN ReturnReviews(acc)
            ELSE /\ items' = resp.json
                 /\ pc' = "reviews"
                 /\ UNCHANGED <<stats, page, acc, prs, reviews, closed_issues,
                                issue_comments>>
    /\ UNCHANGED <<username, since_date, end_date, calls, returned, changes,
                   size, team>>

\* fetch_user_reviews: the request for one pull request's reviews
GetReviews ==
    /\ pc = "reviews"
    /\ \E resp \in ReviewsResponses :
         LET list == IF resp.status_code = 200
                     THEN acc \o UserReviews(resp.json, Head(items), username)
                     ELSE acc
         IN /\ returned' = returned + Len(resp.json)
            /\ last' = Seen("reviews", Head(items).number, resp)
            /\ IF Tail(items) /= <<>>
               THEN /\ items' = Tail(items)
                    /\ acc' = list
                    /\ UNCHANGED <<stats, pc, page, prs, reviews,
                                   closed_issues, issue_comments>>
               ELSE IF page + 1 <= MaxPages
               THEN /\ items' = <<>>
                    /\ acc' = list
                    /\ page' = page + 1
                    /\ pc' = "fetch_user_reviews"
                    /\ UNCHANGED <<stats, prs, reviews, closed_issues,
                                   issue_comments>>
               ELSE ReturnReviews(list)
    /\ UNCHANGED <<username, since_date, end_date, calls, changes, size, team>>

\* fetch_user_issues: its one request, and the loop over issues
SearchIssues ==
    /\ pc = "fetch_user_issues"
    /\ \E resp \in SearchResponses(IssueItems) :
         LET list == IF resp.status_code = 200 THEN resp.json ELSE <<>>
         IN /\ returned' = returned + Len(resp.json)
            /\ last' = Seen("fetch_user_issues", 1, resp)
            /\ stats' = ProcessIssues(stats, list)
    /\ pc' = "fetch_user_closed_issues"
    /\ UNCHANGED <<username, since_date, end_date, calls, page, items, acc,
                   prs, reviews, closed_issues, issue_comments, changes, size,
                   team>>

\* fetch_user_closed_issues returns list
ReturnClosedIssues(list) ==
    /\ closed_issues' = list
    /\ stats' = ProcessClosedIssues(stats, list)
    /\ pc' = "fetch_user_issue_comments"
    /\ page' = 1
    /\ items' = <<>>
    /\ acc' = <<>>
    /\ UNCHANGED <<prs, reviews, issue_comments>>

\* fetch_user_closed_issues: the search request
SearchClosedIssues ==
    /\ pc = "fetch_user_closed_issues"
    /\ \E resp \in SearchResponses(ClosedItems) :
         /\ last' = Seen("fetch_user_closed_issues", 1, resp)
         /\ IF resp.status_code /= 200 \/ resp.json = <<>>
            THEN ReturnClosedIssues(<<>>)
            ELSE /\ items' = resp.json
                 /\ acc' = <<>>
                 /\ pc' = "events"
                 /\ UNCHANGED <<stats, page, prs, reviews, closed_issues,
                                issue_comments>>
    /\ UNCHANGED <<username, since_date, end_date, calls, returned, changes,
                   size, team>>

\* fetch_user_closed_issues: the request for one issue's events
GetEvents ==
    /\ pc = "events"
    /\ \E resp \in EventsResponses :
         LET list == IF /\ resp.status_code = 200
                        /\ ClosedByUser(resp.json, username, since_date[1])
                     THEN Append(acc, Head(items)) ELSE acc
         IN /\ returned' = returned + Len(resp.json)
            /\ last' = Seen("events", Head(items).number, resp)
            /\ IF Tail(items) = <<>>
               THEN ReturnClosedIssues(list)
               ELSE /\ items' = Tail(items)
                    /\ acc' = list
                    /\ UNCHANGED <<stats, pc, page, prs, reviews,
                                   closed_issues, issue_comments>>
    /\ UNCHANGED <<username, since_date, end_date, calls, changes, size, team>>

\* fetch_user_issue_comments returns list
ReturnComments(list) ==
    /\ issue_comments' = list
    /\ stats' = ProcessComments(stats, list, since_date[1])
    /\ pc' = "fetch_user_commits"
    /\ page' = 1
    /\ items' = <<>>
    /\ acc' = <<>>
    /\ UNCHANGED <<prs, reviews, closed_issues>>

\* fetch_user_issue_comments: the search request of one page
SearchCommentedIssues ==
    /\ pc = "fetch_user_issue_comments"
    /\ page <= MaxPages
    /\ \E resp \in SearchResponses(IssueItems) :
         /\ last' = Seen("fetch_user_issue_comments", page, resp)
         /\ IF resp.status_code /= 200 \/ resp.json = <<>>
            THEN ReturnComments(acc)
            ELSE /\ items' = resp.json
                 /\ pc' = "comments"
                 /\ UNCHANGED <<stats, page, acc, prs, reviews, closed_issues,
                                issue_comments>>
    /\ UNCHANGED <<username, since_date, end_date, calls, returned, changes,
                   size, team>>

\* fetch_user_issue_comments: the request for one issue's comments
GetComments ==
    /\ pc = "comments"
    /\ \E resp \in CommentsResponses :
         LET list == IF resp.status_code = 200
                     THEN acc \o UserComments(resp.json, Head(items), username)
                     ELSE acc
         IN /\ returned' = returned + Len(resp.json)
            /\ last' = Seen("comments", Head(items).number, resp)
            /\ IF Tail(items) /= <<>>
               THEN /\ items' = Tail(items)
                    /\ acc' = list
                    /\ UNCHANGED <<stats, pc, page, prs, reviews,
                                   closed_issues, issue_comments>>
               ELSE IF page + 1 <= MaxPages
               THEN /\ items' = <<>>
                    /\ acc' = list
                    /\ page' = page + 1
                    /\ pc' = "fetch_user_issue_comments"
                    /\ UNCHANGED <<stats, prs, reviews, closed_issues,
                                   issue_comments>>
               ELSE ReturnComments(list)
    /\ UNCHANGED <<username, since_date, end_date, calls, changes, size, team>>

\* fetch_user_commits: its one request, and the loop over commits
ListCommits ==
    /\ pc = "fetch_user_commits"
    /\ \E resp \in CommitsResponses :
         LET list == IF resp.status_code = 200 THEN resp.json ELSE <<>>
         IN /\ returned' = returned + Len(resp.json)
            /\ last' = Seen("fetch_user_commits", 1, resp)
            /\ stats' = ProcessCommits(stats, list)
    /\ pc' = "done"
    /\ UNCHANGED <<username, since_date, end_date, calls, page, items, acc,
                   prs, reviews, closed_issues, issue_comments, changes, size,
                   team>>

Next ==
    \/ AnalyzeActivity
    \/ SearchPRs
    \/ GetPull
    \/ SearchReviews
    \/ GetReviews
    \/ SearchIssues
    \/ SearchClosedIssues
    \/ GetEvents
    \/ SearchCommentedIssues
    \/ GetComments
    \/ ListCommits

Spec == Init /\ [][Next]_vars

(***************************************************************************)
(* main: the arguments, one analyzer, one call of analyze_activity.  A     *)
(* request that is not answered raises; nothing catches the exception.     *)
(***************************************************************************)
\* --days: type=int takes zero and negative numbers as well
DaysArgs == (0 - 1)..MaxDay

\* a --startdate text that strptime rejects ("2026-13-45", "yesterday"): a
\* day that is not in the calendar
InvalidDate == MaxDay + 1

\* --startdate: absent, the date "%Y-%m-%d" of a day, or a text that is no date
StartDateArgs == {None} \cup {Some(d) : d \in Days \cup {InvalidDate}}

\* datetime.strptime(s, "%Y-%m-%d"): the midnight the day starts with
strpdate(d) == strptime(<<d, 0>>)

\* except ValueError: the error is printed and main returns
InvalidDateReturn ==
    /\ pc' = "invalid_date"
    /\ UNCHANGED <<username, stats, since_date, end_date, calls, returned,
                   page, items, acc, last, prs, reviews, closed_issues,
                   issue_comments, changes, size, team>>

\* main without the except branch: the analysis runs to today's date
MainIgnoresInvalidDate ==
    /\ calls = 0
    /\ pc = "idle"
    /\ \E days \in DaysArgs :
         analyze_activity(days, IF Truthy(startdate) /\ startdate[1] \in Days
                                THEN Some(strpdate(startdate[1])) ELSE None)

main ==
    /\ calls = 0
    /\ pc = "idle"
    /\ \E days \in DaysArgs :
         IF Truthy(startdate)
         THEN IF startdate[1] \in Days
              THEN analyze_activity(days, Some(strpdate(startdate[1])))
              ELSE InvalidDateReturn
         ELSE analyze_activity(days, None)

\* main after analyze_activity returned: generate_report, then the report is
\* written to --output or printed; html holds what was written, whatever
\* its format
OutputReport ==
    /\ pc = "done"
    /\ calls = 1
    /\ html' = Some(<<"report">>)
    /\ pc' = "reported"
    /\ UNCHANGED <<username, stats, since_date, end_date, calls, returned,
                   page, items, acc, last, prs, reviews, closed_issues,
                   issue_comments, changes, size, owner, repo, report_data,
                   indexer, lookup, startdate>>

\* the statements that issue a request
Requests ==
    {"fetch_user_prs", "pulls", "fetch_user_reviews", "reviews",
     "fetch_user_issues", "fetch_user_closed_issues", "events",
     "fetch_user_issue_comments", "comments", "fetch_user_commits"}

\* requests.get raises: the exception leaves the fetch, analyze_activity and
\* main
RequestRaises ==
    /\ pc \in Requests
    /\ last' = Seen(pc, IF items = <<>> THEN page ELSE Head(items).number,
                    NoResponse)
    /\ pc' = "raised"
    /\ UNCHANGED <<username, stats, since_date, end_date, calls, returned,
                   page, items, acc, prs, reviews, closed_issues,
                   issue_comments, changes, size, team>>

MainNext ==
    \/ main
    \/ SearchPRs
    \/ GetPull
    \/ SearchReviews
    \/ GetReviews
    \/ SearchIssues
    \/ SearchClosedIssues
    \/ GetEvents
    \/ SearchCommentedIssues
    \/ GetComments
    \/ ListCommits
    \/ RequestRaises
    \/ OutputReport

\* main is given its arguments
MainInit ==
    /\ Constructed
    /\ startdate \in StartDateArgs

MainSpec == MainInit /\ [][MainNext]_vars

(***************************************************************************)
(* _get_pr_size on its own: every argument 0..MaxChanges, applied once.    *)
(***************************************************************************)
SizeInit ==
    /\ TeamIdle
    /\ startdate = None
    /\ username \in Usernames
    /\ stats = InitStats
    /\ since_date = None
    /\ end_date = None
    /\ pc = "size"
    /\ calls = 0
    /\ returned = 0
    /\ page = 1
    /\ items = <<>>
    /\ acc = <<>>
    /\ last = NoRequest
    /\ prs = <<>>
    /\ reviews = <<>>
    /\ closed_issues = <<>>
    /\ issue_comments = <<>>
    /\ changes \in 0..MaxChanges
    /\ size = "none"

ApplyGetPrSize ==
    /\ pc = "size"
    /\ size' = _get_pr_size(changes)
    /\ pc' = "sized"
    /\ UNCHANGED <<username, stats, since_date, end_date, calls, returned,
                   page, items, acc, last, prs, reviews, closed_issues,
                   issue_comments, changes, team>>

SizeNext == ApplyGetPrSize

SizeSpec == SizeInit /\ [][SizeNext]_vars

(***************************************************************************)
(* Properties                                                              *)
(***************************************************************************)
opened == stats.pull_requests_opened
merged == stats.pull_requests_merged
closed == stats.pull_requests_closed
reviewed == stats.pull_requests_reviewed

\* the indices of the records of list that satisfy Test
Where(list, Test(_)) == {i \in 1..Len(list) : Test(list[i])}

\* C1: _get_pr_size maps every changes >= 0 to exactly one of the six
\* classes: < 10 xs, 10..29 s, 30..99 m, 100..499 l, 500..999 xl, >= 1000 xxl.
C1_SizeClassPartition ==
    pc = "sized" =>
        /\ size \in SizeClasses
        /\ size = "xs" <=> changes < 10
        /\ size = "s" <=> (10 <= changes /\ changes <= 29)
        /\ size = "m" <=> (30 <= changes /\ changes <= 99)
        /\ size = "l" <=> (100 <= changes /\ changes <= 499)
        /\ size = "xl" <=> (500 <= changes /\ changes <= 999)
        /\ size = "xxl" <=> changes >= 1000

C1_Witness == pc = "sized" /\ changes = 1000 /\ size = "xxl"

\* C2: every fetched pull request is recorded under opened; an opened record
\* is under merged iff it has a merge timestamp and under closed iff it has
\* none and its state is closed; merged and closed hold opened records only,
\* each once, and share none.
C2_PRBuckets ==
    /\ Len(prs) <= Len(opened)
    /\ \A i \in 1..Len(prs) :
         LET r == opened[Len(opened) - Len(prs) + i]
         IN /\ r.number = prs[i].number
            /\ r.state = prs[i].state
            /\ r.merged_at = prs[i].merged_at
    /\ \A i \in 1..Len(opened) :
         /\ opened[i] \in Range(merged) <=> Truthy(opened[i].merged_at)
         /\ opened[i] \in Range(closed) <=>
              (~Truthy(opened[i].merged_at) /\ opened[i].state = "closed")
    /\ Range(merged) \cup Range(closed) \subseteq Range(opened)
    /\ Range(merged) \cap Range(closed) = {}
    /\ Len(merged) = Cardinality(Where(opened, LAMBDA r : Truthy(r.merged_at)))
    /\ Len(closed) = Cardinality(Where(opened,
                        LAMBDA r : ~Truthy(r.merged_at) /\ r.state = "closed"))

C2_Witness ==
    /\ pc = "done"
    /\ Len(prs) = 2
    /\ Len(merged) = 1
    /\ Len(closed) = 1

\* C3: after a completed analyze_activity, each pr_sizes counter is the number
\* of opened records of that size, and the six counters sum to len(opened).
C3_SizeCountersMatchOpened ==
    pc = "done" =>
        /\ \A c \in SizeClasses :
             stats.pr_sizes[c] =
                 Cardinality(Where(opened, LAMBDA r : r.size = c))
        /\ stats.pr_sizes["xs"] + stats.pr_sizes["s"] + stats.pr_sizes["m"]
             + stats.pr_sizes["l"] + stats.pr_sizes["xl"]
             + stats.pr_sizes["xxl"] = Len(opened)

C3_Witness ==
    /\ pc = "done"
    /\ calls = 2
    /\ Len(prs) = 1
    /\ Len(opened) = 2
    /\ stats.pr_sizes["xs"] = 1
    /\ stats.pr_sizes["s"] = 1

\* C4: after a completed analyze_activity, total_additions, total_deletions
\* and total_files_changed are the sums over all opened records.
C4_TotalsMatchOpened ==
    pc = "done" =>
        /\ stats.total_additions =
             SumSeq([i \in 1..Len(opened) |-> opened[i].additions])
        /\ stats.total_deletions =
             SumSeq([i \in 1..Len(opened) |-> opened[i].deletions])
        /\ stats.total_files_changed =
             SumSeq([i \in 1..Len(opened) |-> opened[i].changed_files])

C4_Witness ==
    /\ pc = "done"
    /\ calls = 2
    /\ Len(prs) = 1
    /\ Len(opened) = 2
    /\ Len(merged) = 1
    /\ Len(closed) = 0
    /\ stats.total_additions = 9

\* C5: after a completed analyze_activity, total_commits_in_prs is the sum of
\* the commits of all opened records.
C5_CommitsMatchOpened ==
    pc = "done" =>
        stats.total_commits_in_prs =
            Some(SumSeq([i \in 1..Len(opened) |-> opened[i].commits]))

\* the records a step appends to pull_requests_reviewed
NewReviewed == (Len(reviewed) + 1)..Len(reviewed')

\* C6: every review record analyze_activity appends has a submission
\* timestamp, and that timestamp is >= the window start.
C6_RetainedHaveTimestampInWindow ==
    [][\A i \in NewReviewed :
          /\ Truthy(reviewed'[i].submitted_at)
          /\ strptime(reviewed'[i].submitted_at[1]) >= since_date[1]]_vars

\* C7: no review record analyze_activity appends has a submission timestamp
\* earlier than the window start.
C7_NoEarlyReviewRetained ==
    [][\A i \in NewReviewed :
          Truthy(reviewed'[i].submitted_at) =>
              ~(strptime(reviewed'[i].submitted_at[1]) < since_date[1])]_vars

C7_Witness ==
    /\ pc = "fetch_user_issues"
    /\ since_date = Some(1)
    /\ Len(reviews) = 2
    /\ reviews[1].submitted_at = Some(<<0, 0>>)
    /\ reviews[2].submitted_at = Some(<<0, 1>>)
    /\ Len(reviewed) = 1
    /\ reviewed[1].submitted_at = Some(<<0, 1>>)

\* C8: once analyze_activity has counted the reviews, total_reviews_given is
\* the number of review records, unique_prs_reviewed the number of distinct
\* pr_number among them, so unique <= total, with equality iff no pr_number
\* occurs twice.
C8_ReviewCounts ==
    Truthy(stats.total_reviews_given) =>
        /\ stats.total_reviews_given = Some(Len(reviewed))
        /\ stats.unique_prs_reviewed =
             Some(Cardinality({reviewed[i].pr_number : i \in 1..Len(reviewed)}))
        /\ stats.unique_prs_reviewed[1] <= stats.total_reviews_given[1]
        /\ stats.unique_prs_reviewed[1] = stats.total_reviews_given[1] <=>
             \A i, j \in 1..Len(reviewed) :
                 reviewed[i].pr_number = reviewed[j].pr_number => i = j

C8_Witness ==
    /\ pc = "done"
    /\ stats.total_reviews_given = Some(2)
    /\ stats.unique_prs_reviewed = Some(1)

\* the list fetch_user_closed_issues has built so far, or has returned
UserClosedIssues == IF pc = "events" THEN acc ELSE closed_issues

\* C9: an issue whose events were just requested is in the list of
\* fetch_user_closed_issues, once, iff the request succeeded and some closed
\* event has the user as actor, ignoring case, and a timestamp >= the window
\* start; the issues not yet visited are not in it, and issues_closed ends
\* with the records of the returned list.
C9_ClosedIssueAttribution ==
    /\ last.kind = "events" =>
         LET events == last.resp.json
             hit == /\ last.resp.status_code = 200
                    /\ \E i \in 1..Len(events) :
                         /\ events[i].event = "closed"
                         /\ lower(events[i].login) = lower(username)
                         /\ strptime(events[i].created_at) >= since_date[1]
         IN Cardinality(Where(UserClosedIssues,
                              LAMBDA x : x.number = last.arg))
              = IF hit THEN 1 ELSE 0
    /\ pc = "events" =>
         \A i \in 1..Len(items), j \in 1..Len(acc) :
             items[i].number /= acc[j].number
    /\ Len(closed_issues) <= Len(stats.issues_closed)
    /\ \A i \in 1..Len(closed_issues) :
         LET r == stats.issues_closed[
                      Len(stats.issues_closed) - Len(closed_issues) + i]
         IN /\ r.number = closed_issues[i].number
            /\ r.title = closed_issues[i].title
            /\ r.url = closed_issues[i].html_url

C9_Witness ==
    /\ last.kind = "events"
    /\ last.resp.status_code = 200
    /\ Len(last.resp.json) = 2
    /\ last.resp.json[1] =
         [event |-> "closed", login |-> "bob", created_at |-> <<0, 1>>]
    /\ last.resp.json[2] =
         [event |-> "closed", login |-> "Alice", created_at |-> <<0, 1>>]
    /\ since_date = Some(1)
    /\ Len(closed_issues) = 1
    /\ closed_issues[1].number = last.arg
    /\ Len(stats.issues_closed) = 1

\* the list fetch_user_issue_comments has built so far, or has returned
UserIssueComments ==
    IF pc \in {"comments", "fetch_user_issue_comments"} THEN acc
    ELSE issue_comments

\* record r carries the number, title, url and state of one issue
CarriesItsIssue(r) ==
    /\ r.issue_title = TitleOf(r.issue_number)
    /\ r.issue_url = UrlOf(r.issue_number)
    /\ r.issue_state = IssueState(r.issue_number)

\* every comment of the list of fetch_user_issue_comments is by the user and
\* carries its issue; the comments of the issue just requested end the list:
\* the user's, in order, with that issue's number
C10_Fetched ==
    /\ \A i \in 1..Len(UserIssueComments) :
         /\ lower(UserIssueComments[i].login) = lower(username)
         /\ CarriesItsIssue(UserIssueComments[i])
    /\ (last.kind = "comments" /\ last.resp.status_code = 200) =>
         LET mine == SelectSeq(last.resp.json,
                               LAMBDA c : lower(c.login) = lower(username))
             n == Len(UserIssueComments)
         IN /\ Len(mine) <= n
            /\ \A i \in 1..Len(mine) :
                 LET c == UserIssueComments[n - Len(mine) + i]
                 IN /\ c.login = mine[i].login
                    /\ c.created_at = mine[i].created_at
                    /\ c.issue_number = last.arg
    /\ \A i \in 1..Len(stats.issue_comments) :
         CarriesItsIssue(stats.issue_comments[i])

\* the records a step appends to stats["issue_comments"]
NewComments == (Len(stats.issue_comments) + 1)..Len(stats.issue_comments')

\* C10: every record of issue_comments stems from a comment of the user
\* (login equal ignoring case) that fetch_user_issue_comments returned, no
\* comment of another author is in that list, and each record carries the
\* number, title, url and state of the issue the comment was fetched from.
C10_CommentsAreTheUsers ==
    [][/\ C10_Fetched'
       /\ \A i \in NewComments :
            \E j \in 1..Len(issue_comments') :
                /\ lower(issue_comments'[j].login) = lower(username)
                /\ stats.issue_comments'[i].issue_number =
                       issue_comments'[j].issue_number
                /\ stats.issue_comments'[i].created_at =
                       issue_comments'[j].created_at]_vars

C10_Witness ==
    /\ pc \in {"comments", "fetch_user_issue_comments"}
    /\ last.kind = "comments"
    /\ last.resp.status_code = 200
    /\ Len(last.resp.json) = 2
    /\ last.resp.json[1].login = "Alice"
    /\ last.resp.json[2].login = "bob"
    /\ Len(acc) = 1
    /\ acc[1].issue_number = last.arg
    /\ acc[1].issue_number = 2
    /\ acc[1].issue_state = "closed"

(***************************************************************************)
(* Properties of one run of main                                           *)
(***************************************************************************)
\* the statements that issue the search or list request of a category, and
\* those of the two searches that are paginated
Searches ==
    {"fetch_user_prs", "fetch_user_reviews", "fetch_user_issues",
     "fetch_user_closed_issues", "fetch_user_issue_comments",
     "fetch_user_commits"}
Paginated == {"fetch_user_reviews", "fetch_user_issue_comments"}

\* the place of a statement in analyze_activity: the category it belongs to
Stage(p) ==
    CASE p \in {"idle", "invalid_date"} -> 0
      [] p \in {"fetch_user_prs", "pulls"} -> 1
      [] p \in {"fetch_user_reviews", "reviews"} -> 2
      [] p = "fetch_user_issues" -> 3
      [] p \in {"fetch_user_closed_issues", "events"} -> 4
      [] p \in {"fetch_user_issue_comments", "comments"} -> 5
      [] p = "fetch_user_commits" -> 6
      [] p \in {"done", "reported"} -> 7
      [] p = "raised" -> 8

\* a response with a status other than 200
NonSuccess(resp) == resp /= NoResponse /\ resp.status_code /= 200

\* this step is the search or list request of a category, and it is answered
SearchStep == pc \in Searches /\ last'.kind = pc /\ last'.resp /= NoResponse

\* the collection the fetch of a category has returned once this step is over
ReturnedBy(kind) ==
    CASE kind = "fetch_user_prs" -> prs'
      [] kind = "fetch_user_reviews" -> reviews'
      [] kind = "fetch_user_issues" -> stats.issues_opened'
      [] kind = "fetch_user_closed_issues" -> closed_issues'
      [] kind = "fetch_user_issue_comments" -> issue_comments'
      [] kind = "fetch_user_commits" -> stats.commits_authored'

\* C11 as claimed: in every category a search or list request, whatever its
\* page, that gets a non-success response leaves the collection the fetch
\* returns empty.
C11_NonSuccessGivesEmpty ==
    [][(SearchStep /\ NonSuccess(last'.resp)) => ReturnedBy(pc) = <<>>]_vars

\* C11 as amended: a search or list request that gets a non-success response
\* ends the fetch of its category; the collection returned is empty when it
\* was the only or the first page's request, and holds what the earlier pages
\* yielded when it was the request of page 2 or 3.
C11_NonSuccessEndsFetch ==
    [][(SearchStep /\ NonSuccess(last'.resp)) =>
          /\ Stage(pc') = Stage(pc) + 1
          /\ ReturnedBy(pc) = (IF pc \in Paginated THEN acc ELSE <<>>)
          /\ last'.arg = 1 => ReturnedBy(pc) = <<>>]_vars

C11_Witness ==
    /\ last.kind = "fetch_user_reviews"
    /\ last.arg = 2
    /\ last.resp = Failure
    /\ pc = "fetch_user_issues"
    /\ Len(reviews) = 1

\* the keys of stats the statements of a category write
KeysOf(stage) ==
    CASE stage = 1 -> {"pull_requests_opened", "pull_requests_merged",
                       "pull_requests_closed", "total_additions",
                       "total_deletions", "total_files_changed", "pr_sizes",
                       "total_commits_in_prs"}
      [] stage = 2 -> {"pull_requests_reviewed", "total_reviews_given",
                       "unique_prs_reviewed"}
      [] stage = 3 -> {"issues_opened"}
      [] stage = 4 -> {"issues_closed"}
      [] stage = 5 -> {"issue_comments"}
      [] stage = 6 -> {"commits_authored"}
      [] OTHER -> {}

\* C12: whatever the responses, a step whose request is answered stays in its
\* category or goes on to the search or list request of the next one, in the
\* order PRs, reviews, issues opened, issues closed, issue comments, commits,
\* and analyze_activity is over only after the six; the statements of a
\* category write the statistics of that category only, so a non-success
\* response changes nothing of another category; a non-success response to
\* the only or first request of a category adds no record at all, and to the
\* first reviews search gives total_reviews_given = 0.
C12_CategoriesIsolated ==
    [][/\ \A k \in DOMAIN stats :
            stats'[k] /= stats[k] => k \in KeysOf(Stage(pc))
       /\ last'.resp /= NoResponse =>
            /\ Stage(pc') \in {Stage(pc), Stage(pc) + 1}
            /\ Stage(pc') = Stage(pc) + 1 => pc' \in Searches \cup {"done"}
       /\ (SearchStep /\ NonSuccess(last'.resp) /\ last'.arg = 1) =>
            \A k \in DOMAIN stats \ {"total_commits_in_prs",
                                     "total_reviews_given",
                                     "unique_prs_reviewed"} :
                stats'[k] = stats[k]
       /\ (SearchStep /\ NonSuccess(last'.resp)
             /\ pc = "fetch_user_reviews" /\ page = 1) =>
            /\ stats'.total_reviews_given = Some(0)
            /\ stats'.unique_prs_reviewed = Some(0)
       /\ pc' = "done" =>
            /\ Truthy(stats'.total_commits_in_prs)
            /\ Truthy(stats'.total_reviews_given)]_vars

C12_Witness ==
    /\ pc = "fetch_user_issues"
    /\ last.kind = "fetch_user_reviews"
    /\ last.arg = 1
    /\ last.resp = Failure
    /\ Len(stats.pull_requests_opened) = 2
    /\ stats.total_commits_in_prs = Some(4)
    /\ stats.total_reviews_given = Some(0)

\* C13: a request that is not answered is handled like a non-success
\* response: analyze_activity goes on with the categories that remain, or is
\* over, and a report is produced.
C13_TransportFailureHandled ==
    last.resp = NoResponse =>
        /\ pc /= "raised"
        /\ Stage(pc) \in Stage(last.kind)..7

\* the statement that visits the hits of a page of a paginated search
Visits(p) == IF p = "fetch_user_reviews" THEN "reviews" ELSE "comments"

\* C14: fetch_user_reviews and fetch_user_issue_comments start at page 1; a
\* search request is for the current page, one of 1, 2, 3; an empty page or a
\* non-success response ends the fetch, any other page is visited hit by hit;
\* every answered request for a hit leaves one hit less to visit, and after
\* the last hit of a page the search goes on with the next page, or the fetch
\* ends when the page was page 3.  So at most 3 pages are searched, in
\* increasing order, and the fetch ends.
C14_AtMostThreePages ==
    [][/\ (pc' \in Paginated /\ Stage(pc') /= Stage(pc)) => page' = 1
       /\ (pc \in Paginated /\ SearchStep) =>
            /\ last'.arg = page
            /\ page \in 1..3
            /\ IF NonSuccess(last'.resp) \/ last'.resp.json = <<>>
               THEN Stage(pc') = Stage(pc) + 1
               ELSE /\ pc' = Visits(pc)
                    /\ items' = last'.resp.json
                    /\ page' = page
       /\ (pc \in {"reviews", "comments"} /\ last'.resp /= NoResponse) =>
            /\ items /= <<>>
            /\ IF Tail(items) /= <<>>
               THEN pc' = pc /\ page' = page /\ items' = Tail(items)
               ELSE IF page < 3
               THEN pc' \in Paginated /\ Visits(pc') = pc /\ page' = page + 1
               ELSE Stage(pc') = Stage(pc) + 1]_vars

C14_Witness ==
    /\ pc = "comments"
    /\ page = 3
    /\ last.kind = "fetch_user_issue_comments"
    /\ last.arg = 3
    /\ Len(items) = 1
    /\ Len(acc) = 1

\* the statements that issue the request for one hit of a search
Lookups == {"pulls", "reviews", "events", "comments"}

\* C15: an answered request is never issued again in the run.  A search or
\* list request leaves its statement, which is reached again only for the
\* next page, and after a non-success response the run is in the next
\* category; categories are never gone back to.  The request for a hit is for
\* the first hit still to visit, and whatever its response that hit is
\* dropped: while the page is visited, none of the hits left has its number.
C15_NothingRetried ==
    [][last'.resp /= NoResponse =>
          /\ Stage(pc') >= Stage(pc)
          /\ pc \in Searches =>
               /\ pc' /= pc
               /\ NonSuccess(last'.resp) => Stage(pc') = Stage(pc) + 1
          /\ (pc' \in Searches /\ Stage(pc') = Stage(pc)) => page' = page + 1
          /\ pc \in Lookups =>
               /\ last'.kind = pc
               /\ last'.arg = Head(items).number
               /\ pc' = pc =>
                    /\ items' = Tail(items)
                    /\ page' = page
                    /\ \A i \in 1..Len(items') : items'[i].number /= last'.arg
       ]_vars

C15_Witness ==
    /\ pc = "pulls"
    /\ last.kind = "pulls"
    /\ last.resp = Failure
    /\ Len(items) = 1
    /\ items[1].number /= last.arg
    /\ acc = <<>>

\* C16: the window analyze_activity stores starts strictly before it ends.
C16_SinceBeforeUntil ==
    Truthy(since_date) => since_date[1] < end_date[1]

\* main was given --startdate: the end date is a midnight, which now is not
ExplicitEndDate == Truthy(end_date) /\ end_date[1] /= Now

\* C17: with an explicit end date and a window of one day or more, no review
\* record, no issue comment record and no closed event that attributes an
\* issue to the user has a timestamp later than the end date.
C17_NothingAfterEndDate ==
    (ExplicitEndDate /\ since_date[1] < end_date[1]) =>
        /\ \A i \in 1..Len(reviewed) :
             Truthy(reviewed[i].submitted_at) =>
                 strptime(reviewed[i].submitted_at[1]) <= end_date[1]
        /\ \A i \in 1..Len(stats.issue_comments) :
             strptime(stats.issue_comments[i].created_at) <= end_date[1]
        /\ (last.kind = "events" /\ last.resp.status_code = 200) =>
             \A i \in 1..Len(UserClosedIssues) :
                 UserClosedIssues[i].number = last.arg =>
                     \E j \in 1..Len(last.resp.json) :
                         /\ last.resp.json[j].event = "closed"
                         /\ IsUser(last.resp.json[j].login, username)
                         /\ strptime(last.resp.json[j].created_at)
                                >= since_date[1]
                         /\ strptime(last.resp.json[j].created_at)
                                <= end_date[1]

(***************************************************************************)
(* Text.  A string is the sequence of its characters; a run of characters  *)
(* that no operation of the program cuts (a word of a label, a name, an    *)
(* emoji written as its code point) is written as one element.             *)
(***************************************************************************)
Digit == {"0", "1", "2", "3", "4", "5", "6", "7", "8", "9"}

DigitValue(c) ==
    CASE c = "0" -> 0 [] c = "1" -> 1 [] c = "2" -> 2 [] c = "3" -> 3
      [] c = "4" -> 4 [] c = "5" -> 5 [] c = "6" -> 6 [] c = "7" -> 7
      [] c = "8" -> 8 [] c = "9" -> 9

DigitChar(d) ==
    CASE d = 0 -> "0" [] d = 1 -> "1" [] d = 2 -> "2" [] d = 3 -> "3"
      [] d = 4 -> "4" [] d = 5 -> "5" [] d = 6 -> "6" [] d = 7 -> "7"
      [] d = 8 -> "8" [] d = 9 -> "9"

\* str(n) of a natural number
RECURSIVE str(_)
str(n) == IF n < 10 THEN <<DigitChar(n)>>
          ELSE str(n \div 10) \o <<DigitChar(n % 10)>>

\* int(s) of a nonempty string of digits
RECURSIVE int(_)
int(s) == IF Len(s) = 1 THEN DigitValue(s[1])
          ELSE 10 * int(SubSeq(s, 1, Len(s) - 1)) + DigitValue(s[Len(s)])

\* pattern in text
In(pattern, text) ==
    \E i \in 0..(Len(text) - Len(pattern)) :
        SubSeq(text, i + 1, i + Len(pattern)) = pattern

\* re.sub(r'[^...]', '', value): only the characters of keep are left
Keep(value, keep) == SelectSeq(value, LAMBDA c : c \in keep)

\* text.strip()
RECURSIVE lstrip(_, _)
lstrip(text, chars) ==
    IF text /= <<>> /\ Head(text) \in chars THEN lstrip(Tail(text), chars)
    ELSE text

RECURSIVE rstrip(_, _)
rstrip(text, chars) ==
    IF text /= <<>> /\ text[Len(text)] \in chars
    THEN rstrip(SubSeq(text, 1, Len(text) - 1), chars)
    ELSE text

Whitespace == {" "}

strip(text) == rstrip(lstrip(text, Whitespace), Whitespace)

\* text.split(sep)
RECURSIVE split(_, _)
split(text, sep) ==
    IF \E i \in 1..Len(text) : text[i] = sep
    THEN LET k == CHOOSE i \in 1..Len(text) :
                      /\ text[i] = sep
                      /\ \A j \in 1..(i - 1) : text[j] /= sep
         IN  <<SubSeq(text, 1, k - 1)>>
                 \o split(SubSeq(text, k + 1, Len(text)), sep)
    ELSE <<text>>

(***************************************************************************)
(* generate_index_html: the two get_metric_value closures                  *)
(***************************************************************************)
\* a dict as the sequence of its items in insertion order
DictSet(dict, key, value) ==
    IF \E i \in 1..Len(dict) : dict[i].key = key
    THEN [i \in 1..Len(dict) |->
             IF dict[i].key = key THEN [key |-> key, value |-> value]
             ELSE dict[i]]
    ELSE Append(dict, [key |-> key, value |-> value])

\* the last item whose key contains label_pattern, 0 if there is none
LastMatch(dict, pattern) ==
    IF \E i \in 1..Len(dict) : In(pattern, dict[i].key)
    THEN CHOOSE i \in 1..Len(dict) :
             /\ In(pattern, dict[i].key)
             /\ \A j \in (i + 1)..Len(dict) : ~In(pattern, dict[j].key)
    ELSE 0

\* the first item whose key contains label_pattern, 0 if there is none
FirstMatch(dict, pattern) ==
    IF \E i \in 1..Len(dict) : In(pattern, dict[i].key)
    THEN CHOOSE i \in 1..Len(dict) :
             /\ In(pattern, dict[i].key)
             /\ \A j \in 1..(i - 1) : ~In(pattern, dict[j].key)
    ELSE 0

Sign == {"+", "-"}
Comma == {","}

\* the closure of the detail table: clean_value and the string it returns
DetailKeepsOnlyDigits(dict, pattern) ==
    LET i == FirstMatch(dict, pattern)
        clean == Keep(dict[i].value, Digit)
    IN  IF i = 0 THEN [clean_value |-> None, value |-> <<"0">>]
        ELSE [clean_value |-> Some(clean),
              value |-> IF clean /= <<>> THEN clean ELSE <<"0">>]

get_metric_value_detail(dict, pattern) ==
    LET i == FirstMatch(dict, pattern)
        clean == Keep(dict[i].value, Digit \cup Sign \cup Comma)
    IN  IF i = 0 THEN [clean_value |-> None, value |-> <<"0">>]
        ELSE [clean_value |-> Some(clean),
              value |-> IF clean /= <<>> THEN clean ELSE <<"0">>]

\* the closure of the per-user summary: clean_value and the number it returns
get_metric_value_summary(dict, pattern) ==
    LET i == FirstMatch(dict, pattern)
        clean == Keep(dict[i].value, Digit)
    IN  IF i = 0 THEN [clean_value |-> None, value |-> 0]
        ELSE [clean_value |-> Some(clean),
              value |-> IF clean /= <<>> THEN int(clean) ELSE 0]

\* the labels _generate_html_report writes on its metric cards
PRsMergedLabel == <<"U+2705", " ", "PRs", " ", "Merged">>
LinesAddedLabel == <<"U+1F4C8", " ", "Lines", " ", "Added">>
LinesDeletedLabel == <<"U+1F4C9", " ", "Lines", " ", "Deleted">>
CommitsLabel == <<"U+1F4BE", " ", "Commits", " ", "in", " ", "PRs">>
ReviewsGivenLabel == <<"U+1F440", " ", "Reviews", " ", "Given">>
IssuesOpenedLabel == <<"U+1F41B", " ", "Issues", " ", "Opened">>
IssuesClosedLabel == <<"U+2705", " ", "Issues", " ", "Closed">>
IssueCommentsLabel == <<"U+1F4AC", " ", "Issue", " ", "Comments">>

\* the label patterns generate_index_html looks up
PRsMergedPattern == <<"PRs", " ", "Merged">>
CommitsPattern == <<"Commits">>

(***************************************************************************)
(* get_metric_value on its own: one lookup in a bounded label mapping      *)
(***************************************************************************)
MaxValueLen == 3

ValueChars == {"0", "1", "+", "-", ",", "x"}

RECURSIVE Strings(_, _)
Strings(chars, n) ==
    IF n = 0 THEN {<<>>}
    ELSE LET shorter == Strings(chars, n - 1)
         IN  shorter \cup {Append(s, c) : s \in shorter, c \in chars}

Values == Strings(ValueChars, MaxValueLen)

\* a label of a document written by hand that contains 'PRs Merged' too
TotalMergedLabel == <<"Total", " ", "PRs", " ", "Merged">>

\* label mappings of a scraped report: the value under lookup comes first
MetricDicts ==
    {<<>>}
    \cup {<<[key |-> PRsMergedLabel, value |-> v]>> : v \in Values}
    \cup {<<[key |-> PRsMergedLabel, value |-> v],
            [key |-> CommitsLabel, value |-> <<"7">>]>> : v \in Values}
    \cup {<<[key |-> PRsMergedLabel, value |-> v],
            [key |-> TotalMergedLabel, value |-> <<"7">>]>> : v \in Values}

MetricInit ==
    /\ startdate = None
    /\ username \in Usernames
    /\ stats = InitStats
    /\ since_date = None
    /\ end_date = None
    /\ pc = "lookup"
    /\ calls = 0
    /\ returned = 0
    /\ page = 1
    /\ items = <<>>
    /\ acc = <<>>
    /\ last = NoRequest
    /\ prs = <<>>
    /\ reviews = <<>>
    /\ closed_issues = <<>>
    /\ issue_comments = <<>>
    /\ changes = 0
    /\ size = "xs"
    /\ owner = "acme"
    /\ repo = "app"
    /\ html = None
    /\ report_data = None
    /\ directory = <<>>
    /\ html_files = <<>>
    /\ reports = <<>>
    /\ index = None
    /\ metrics \in MetricDicts
    /\ label_pattern \in {PRsMergedPattern, CommitsPattern}
    /\ clean_value = None
    /\ metric_value = None

\* the variables a lookup leaves alone
analyzer == <<username, stats, since_date, end_date, calls, returned, page,
              items, acc, last, prs, reviews, closed_issues, issue_comments,
              changes, size, startdate>>

DetailLookup ==
    /\ pc = "lookup"
    /\ LET r == get_metric_value_detail(metrics, label_pattern)
       IN  /\ clean_value' = r.clean_value
           /\ metric_value' = Some(r.value)
    /\ pc' = "detail"
    /\ UNCHANGED <<analyzer, owner, repo, html, report_data, indexer,
                   metrics, label_pattern>>

SummaryLookup ==
    /\ pc = "lookup"
    /\ LET r == get_metric_value_summary(metrics, label_pattern)
       IN  /\ clean_value' = r.clean_value
           /\ metric_value' = Some(r.value)
    /\ pc' = "summary"
    /\ UNCHANGED <<analyzer, owner, repo, html, report_data, indexer,
                   metrics, label_pattern>>

MetricNext == DetailLookup \/ SummaryLookup

MetricSpec == MetricInit /\ [][MetricNext]_vars

\* the value the lookup read, <<>> when no label matched
Matched == FirstMatch(metrics, label_pattern) /= 0

Looked == IF Matched THEN metrics[FirstMatch(metrics, label_pattern)].value
          ELSE <<>>

\* C20: after either extraction, clean_value is the raw value without exactly
\* the characters that are not a digit, a sign or a comma, and the result is
\* 0 / "0" when no label matched or nothing was left
C20_BothKeepDigitsSignsCommas ==
    pc \in {"detail", "summary"} =>
        /\ Matched =>
               clean_value = Some(Keep(Looked, Digit \cup Sign \cup Comma))
        /\ (~Matched \/ Keep(Looked, Digit) = <<>>) =>
               metric_value = Some(IF pc = "detail" THEN <<"0">> ELSE 0)

\* C20 as the code has it: the detail table keeps digits, signs and commas
\* and returns what is left, "0" when nothing is left or no label matched;
\* the summary keeps digits only and returns their decimal value, 0 when
\* no digit is left or no label matched
C20_DetailAndSummaryExtraction ==
    /\ pc = "detail" =>
           LET kept == Keep(Looked, Digit \cup Sign \cup Comma)
           IN  /\ Matched => clean_value = Some(kept)
               /\ metric_value = Some(IF Matched /\ kept /= <<>> THEN kept
                                      ELSE <<"0">>)
    /\ pc = "summary" =>
           LET kept == Keep(Looked, Digit)
           IN  /\ Matched => clean_value = Some(kept)
               /\ metric_value = Some(IF Matched /\ kept /= <<>> THEN int(kept)
                                      ELSE 0)
               /\ Matched => \A i \in 1..Len(clean_value[1]) :
                                 clean_value[1][i] \notin Sign \cup Comma

\* a summary lookup of a value with a sign, a digit and a comma
C20_Witness ==
    /\ pc = "summary"
    /\ Matched
    /\ Looked = <<"+", "1", ",">>
    /\ metric_value = Some(1)

\* C21: a lookup reads the first label, in the order of the mapping, that
\* contains the pattern: clean_value and the result come from the value of
\* that label alone, also when nothing numeric is left of it and a later
\* label contains the pattern too
C21_FirstLabelWins ==
    pc \in {"detail", "summary"} =>
        LET matching == {i \in 1..Len(metrics) :
                            In(label_pattern, metrics[i].key)}
            first == CHOOSE i \in matching : \A j \in matching : i <= j
            kept == Keep(metrics[first].value,
                         IF pc = "detail" THEN Digit \cup Sign \cup Comma
                         ELSE Digit)
        IN  IF matching = {}
            THEN metric_value = Some(IF pc = "detail" THEN <<"0">> ELSE 0)
            ELSE /\ clean_value = Some(kept)
                 /\ metric_value =
                        Some(IF pc = "detail"
                             THEN (IF kept /= <<>> THEN kept ELSE <<"0">>)
                             ELSE (IF kept /= <<>> THEN int(kept) ELSE 0))

\* a detail lookup of 'PRs Merged' in a mapping with two labels that contain
\* it, the first with a value without a digit
C21_Witness ==
    /\ pc = "detail"
    /\ label_pattern = PRsMergedPattern
    /\ Len(metrics) = 2
    /\ In(label_pattern, metrics[1].key)
    /\ In(label_pattern, metrics[2].key)
    /\ metrics[1].value = <<"x">>
    /\ metrics[2].value = <<"7">>
    /\ metric_value = Some(<<"0">>)

(***************************************************************************)
(* Markup.  A document is the sequence of calls HTMLParser.feed makes:     *)
(* handle_starttag, handle_endtag and handle_data.  A tag inside a text is *)
(* written as one element of the text.                                     *)
(***************************************************************************)
StartTag(tag, class) == [type |-> "start", tag |-> tag, class |-> class]
EndTag(tag) == [type |-> "end", tag |-> tag, class |-> ""]
Data(text) == [type |-> "data", tag |-> "", class |-> text]

OpenUsernameDiv == "<div class=\"username\">"
CloseDiv == "</div>"

OpenMetricCardDiv == "<div class=\"metric-card\">"
OpenMetricLabelDiv == "<div class=\"metric-label\">"
OpenMetricValueDiv == "<div class=\"metric-value\">"

IsTag(c) ==
    c \in {OpenUsernameDiv, OpenMetricCardDiv, OpenMetricLabelDiv,
           OpenMetricValueDiv, CloseDiv}

TagOf(c) ==
    CASE c = OpenUsernameDiv -> StartTag("div", "username")
      [] c = OpenMetricCardDiv -> StartTag("div", "metric-card")
      [] c = OpenMetricLabelDiv -> StartTag("div", "metric-label")
      [] c = OpenMetricValueDiv -> StartTag("div", "metric-value")
      [] c = CloseDiv -> EndTag("div")

\* the calls HTMLParser makes for a text: a tag for every tag in it, and one
\* handle_data for every run of other characters
RECURSIVE Tokenize(_)
Tokenize(text) ==
    IF text = <<>> THEN <<>>
    ELSE IF IsTag(Head(text))
    THEN <<TagOf(Head(text))>> \o Tokenize(Tail(text))
    ELSE LET n == IF \E i \in 1..Len(text) : IsTag(text[i])
                  THEN (CHOOSE i \in 1..Len(text) :
                            /\ IsTag(text[i])
                            /\ \A j \in 1..(i - 1) : ~IsTag(text[j])) - 1
                  ELSE Len(text)
         IN  <<Data(SubSeq(text, 1, n))>>
                 \o Tokenize(SubSeq(text, n + 1, Len(text)))

\* the line break and indentation between two tags of the template
Indent == <<Data(<<" ">>)>>

\* <div class="...">body</div> and <tag>body</tag>
Div(class, body) == <<StartTag("div", class)>> \o body \o <<EndTag("div")>>
Element(tag, body) == <<StartTag(tag, "")>> \o body \o <<EndTag(tag)>>

RECURSIVE Concat(_)
Concat(seqs) == IF seqs = <<>> THEN <<>> ELSE Head(seqs) \o Concat(Tail(seqs))

(***************************************************************************)
(* _generate_html_report                                                   *)
(***************************************************************************)
\* a metric card of the template; description is <<>> or the text of the
\* size-description div
MetricCard(label, value, description) ==
    Indent \o
    Div("metric-card",
        Indent \o Div("metric-label", Tokenize(label))
        \o Indent \o Div("metric-value", Tokenize(value))
        \o (IF description = <<>> THEN <<>>
            ELSE Indent \o Div("size-description", Tokenize(description)))
        \o Indent)

SizeCard(class, count) ==
    Indent \o
    Div("size-card",
        Indent \o Div("size-label", Element("span", Tokenize(<<class>>)))
        \o Indent \o Div("size-value", Tokenize(str(count)))
        \o Indent \o Div("size-description", Tokenize(<<"changes">>))
        \o Indent)

\* the card of one pull request: the title is interpolated as it is
PRCard(pr) ==
    Indent \o
    Div("pr-card",
        Indent \o
        Div("pr-title",
            Element("span", Tokenize(<<"#">> \o str(pr.number)))
            \o Element("a", Tokenize(pr.title))
            \o Element("span", Tokenize(<<IF Truthy(pr.merged_at) THEN "Merged"
                                          ELSE IF pr.state = "closed"
                                          THEN "Closed" ELSE "Open">>))
            \o Element("span", Tokenize(<<pr.size>>)))
        \o Indent \o
        Div("pr-stats",
            Div("pr-stat", Tokenize(<<"+">> \o str(pr.additions)))
            \o Div("pr-stat", Tokenize(<<"-">> \o str(pr.deletions)))
            \o Div("pr-stat", Tokenize(str(pr.total_changes)
                                       \o <<" ", "total", " ", "changes">>))
            \o Div("pr-stat", Tokenize(str(pr.changed_files)
                                       \o <<" ", "files">>))
            \o Div("pr-stat", Tokenize(str(pr.commits) \o <<" ", "commits">>)))
        \o Indent)

\* dict.get(key, default)
get(value, default) == IF value = None THEN default ELSE value[1]

\* the totals _generate_html_report computes before the template
HtmlTotals(st) ==
    [total_merged |-> Len(st.pull_requests_merged),
     total_reviews |-> get(st.total_reviews_given,
                           Len(st.pull_requests_reviewed)),
     unique_prs_reviewed |->
         get(st.unique_prs_reviewed,
             Cardinality({st.pull_requests_reviewed[i].pr_number :
                              i \in 1..Len(st.pull_requests_reviewed)})),
     total_issues_opened |-> Len(st.issues_opened),
     total_issues_closed |-> Len(st.issues_closed),
     total_issue_comments |-> Len(st.issue_comments),
     unique_issues_commented |->
         Cardinality({st.issue_comments[i].issue_number :
                          i \in 1..Len(st.issue_comments)}),
     total_commits_in_prs |-> get(st.total_commits_in_prs, 0)]

Card(label, value, description) ==
    [label |-> label, value |-> value, description |-> description]

\* the metric cards of the template, in the order of the document: the four
\* of the first grid, then the four of the collaboration grid
MetricCards(st) ==
    LET t == HtmlTotals(st)
    IN  <<Card(PRsMergedLabel, str(t.total_merged), <<>>),
          Card(LinesAddedLabel, <<"+">> \o str(st.total_additions), <<>>),
          Card(LinesDeletedLabel, <<"-">> \o str(st.total_deletions), <<>>),
          Card(CommitsLabel, str(t.total_commits_in_prs), <<>>),
          Card(ReviewsGivenLabel, str(t.total_reviews),
               str(t.unique_prs_reviewed) \o <<" ", "unique", " ", "PRs">>),
          Card(IssuesOpenedLabel, str(t.total_issues_opened), <<>>),
          Card(IssuesClosedLabel, str(t.total_issues_closed), <<>>),
          Card(IssueCommentsLabel, str(t.total_issue_comments),
               str(t.unique_issues_commented)
                   \o <<" ", "unique", " ", "issues">>)>>

\* the size cards of the template
SizeCards(st) ==
    LET sizes == <<"xs", "s", "m", "l", "xl", "xxl">>
    IN  [i \in 1..Len(sizes) |->
            [class |-> sizes[i], count |-> st.pr_sizes[sizes[i]]]]

\* the document, from <body> to the pull request section.  The sections
\* after it are written for a non-empty list only.
HtmlReport(own, rep, user, st) ==
    LET cards == MetricCards(st)
        size_cards == SizeCards(st)
        Grid(from, to) ==
            Concat([i \in 1..(to - from + 1) |->
                       MetricCard(cards[from + i - 1].label,
                                  cards[from + i - 1].value,
                                  cards[from + i - 1].description)])
    IN  Div("container",
            Indent \o
            Div("header",
                Indent \o Element("h1", Tokenize(<<"U+1F4CA", " ",
                    "Repository", " ", "Activity", " ", "Report">>))
                \o Indent \o Div("repo", Tokenize(<<own, "/", rep>>))
                \o Indent \o Div("username", Tokenize(<<"@", user>>))
                \o Indent \o Div("meta", Tokenize(<<" ", "U+1F4C5", " ",
                    "Period:", " ", "U+1F550", " ", "Generated:", " ">>))
                \o Indent)
            \o Indent \o
            Div("metrics-grid", Grid(1, 4) \o Indent)
            \o Indent \o
            Div("section",
                Div("pr-size-chart",
                    Concat([i \in 1..Len(size_cards) |->
                               SizeCard(size_cards[i].class,
                                        size_cards[i].count)])))
            \o Indent \o
            Div("section",
                Div("metrics-grid", Grid(5, 8) \o Indent))
            \o (IF st.pull_requests_opened /= <<>>
                THEN Indent \o
                     Div("section",
                         Element("h2", Tokenize(<<"Pull", " ", "Requests",
                                                  " ", "Opened">>))
                         \o Concat([i \in 1..Len(st.pull_requests_opened) |->
                                       PRCard(st.pull_requests_opened[i])]))
                ELSE <<>>)
            \o Indent)

(***************************************************************************)
(* ReportMetricsParser and parse_report_file                               *)
(***************************************************************************)
\* ReportMetricsParser.__init__
NewParser ==
    [in_repo_div |-> FALSE,
     in_username_div |-> FALSE,
     in_metric_card |-> FALSE,
     in_metric_label |-> FALSE,
     in_metric_value |-> FALSE,
     current_label |-> None,
     metrics |-> <<>>,
     username |-> None,
     repo_owner |-> None,
     repo_name |-> None]

handle_starttag(p, tag, class) ==
    LET p1 == IF tag = "div" /\ class = "repo"
              THEN [p EXCEPT !.in_repo_div = TRUE] ELSE p
        p2 == IF tag = "div" /\ class = "username"
              THEN [p1 EXCEPT !.in_username_div = TRUE] ELSE p1
        p3 == IF tag = "div" /\ class = "metric-card"
              THEN [p2 EXCEPT !.in_metric_card = TRUE] ELSE p2
    IN  IF p3.in_metric_card
        THEN IF tag = "div" /\ class = "metric-label"
             THEN [p3 EXCEPT !.in_metric_label = TRUE]
             ELSE IF tag = "div" /\ class = "metric-value"
             THEN [p3 EXCEPT !.in_metric_value = TRUE]
             ELSE p3
        ELSE p3

handle_endtag(p, tag) ==
    IF tag /= "div" THEN p
    ELSE IF p.in_repo_div THEN [p EXCEPT !.in_repo_div = FALSE]
    ELSE IF p.in_username_div THEN [p EXCEPT !.in_username_div = FALSE]
    ELSE IF p.in_metric_label THEN [p EXCEPT !.in_metric_label = FALSE]
    ELSE IF p.in_metric_value THEN [p EXCEPT !.in_metric_value = FALSE]
    ELSE IF p.in_metric_card
    THEN [p EXCEPT !.in_metric_card = FALSE, !.current_label = None]
    ELSE p

handle_data(p, text) ==
    LET data == strip(text)
        parts == split(data, "/")
        p1 == IF p.in_repo_div /\ Len(parts) = 2
              THEN [p EXCEPT !.repo_owner = Some(parts[1]),
                             !.repo_name = Some(parts[2])]
              ELSE p
        p2 == IF p1.in_username_div
              THEN [p1 EXCEPT !.username = Some(lstrip(data, {"@"}))]
              ELSE p1
    IN  IF data = <<>> THEN p
        ELSE IF p2.in_metric_label
        THEN [p2 EXCEPT !.current_label = Some(data)]
        ELSE IF p2.in_metric_value /\ Truthy(p2.current_label)
        THEN [p2 EXCEPT !.metrics = DictSet(@, p2.current_label[1], data)]
        ELSE p2

\* one call of a handler
handle(p, t) ==
    CASE t.type = "start" -> handle_starttag(p, t.tag, t.class)
      [] t.type = "end" -> handle_endtag(p, t.tag)
      [] t.type = "data" -> handle_data(p, t.class)

\* parser.feed(content): the calls in the order of the document (the first
\* half of the document, then the second from the parser the first left)
RECURSIVE feed(_, _)
feed(p, content) ==
    IF content = <<>> THEN p
    ELSE IF Len(content) = 1 THEN handle(p, content[1])
    ELSE LET half == Len(content) \div 2
         IN  CHOOSE r \in {feed(q, SubSeq(content, half + 1, Len(content))) :
                              q \in {feed(p, SubSeq(content, 1, half))}} : TRUE

\* a str attribute of the parser that is None or empty
Falsy(attr) == attr = None \/ attr[1] = <<>>

\* the report date: the date in the name of the file if there is one, else
\* the day the file was last modified
ReportDate(file) == IF Truthy(file.stem_date) THEN file.stem_date[1]
                    ELSE file.mtime

\* parse_report_file without the test of repo_owner
ParseIgnoresMissingRepo(file) ==
    LET parser == feed(NewParser, file.content)
    IN  IF Falsy(parser.username) THEN None
        ELSE Some([filename |-> file.filename,
                   date |-> ReportDate(file),
                   username |-> parser.username[1],
                   repo |-> IF Falsy(parser.repo_owner) THEN <<"None/None">>
                            ELSE parser.repo_owner[1] \o <<"/">>
                                     \o parser.repo_name[1],
                   metrics |-> parser.metrics])

parse_report_file(file) ==
    LET parser == feed(NewParser, file.content)
    IN  IF Falsy(parser.username) \/ Falsy(parser.repo_owner) THEN None
        ELSE Some([filename |-> file.filename,
                   date |-> ReportDate(file),
                   username |-> parser.username[1],
                   repo |-> parser.repo_owner[1] \o <<"/">>
                                \o parser.repo_name[1],
                   metrics |-> parser.metrics])

(***************************************************************************)
(* One report: an analysis, generate_report(format="html"), and the scrape *)
(* and lookup generate_team_index makes of the document                    *)
(***************************************************************************)
MaxReportPRs == 2

\* the titles of the pull requests: text, and text with tags in it
ReportTitles ==
    {<<"Fix", " ", "typo">>,
     <<OpenUsernameDiv, "@", "mallory", CloseDiv>>,
     <<OpenMetricCardDiv, OpenMetricLabelDiv, "PRs", " ", "Merged", CloseDiv,
       OpenMetricValueDiv, "9", "9", CloseDiv, CloseDiv>>}

\* the pull requests fetch_user_prs may return
ReportPullRequests ==
    {[pr EXCEPT !.title = t] :
        pr \in {q \in UNION {PullRequest(n) : n \in Numbers} : q.additions = 4},
        t \in ReportTitles}

\* stats after analyze_activity found these pull requests and nothing else
Analyzed(list) ==
    ProcessCommits(
        ProcessComments(
            ProcessClosedIssues(
                ProcessIssues(
                    ProcessReviews(ProcessPRs(InitStats, list), <<>>, 0),
                    <<>>),
                <<>>),
            <<>>, 0),
        <<>>)

ReportInit ==
    /\ startdate = None
    /\ username \in Usernames
    /\ \E list \in SeqsUpTo(ReportPullRequests, MaxReportPRs) :
           stats = Analyzed(list)
    /\ since_date = Some(Now - timedelta(1))
    /\ end_date = Some(Now)
    /\ pc = "analyzed"
    /\ calls = 1
    /\ returned = 0
    /\ page = 1
    /\ items = <<>>
    /\ acc = <<>>
    /\ last = NoRequest
    /\ prs = <<>>
    /\ reviews = <<>>
    /\ closed_issues = <<>>
    /\ issue_comments = <<>>
    /\ changes = 0
    /\ size = "xs"
    /\ owner \in Owners
    /\ repo \in Repos
    /\ html = None
    /\ report_data = None
    /\ directory = <<>>
    /\ html_files = <<>>
    /\ reports = <<>>
    /\ index = None
    /\ metrics = <<>>
    /\ label_pattern = <<>>
    /\ clean_value = None
    /\ metric_value = None

\* generate_report(format="html")
GenerateReport ==
    /\ pc = "analyzed"
    /\ html' = Some(HtmlReport(owner, repo, username, stats))
    /\ pc' = "rendered"
    /\ UNCHANGED <<analyzer, owner, repo, report_data, indexer, lookup>>

\* the file the document is saved to
ReportFile == [filename |-> "report.html",
               stem_date |-> None,
               mtime |-> 1,
               content |-> html[1]]

\* parse_report_file on the saved document
ParseReport ==
    /\ pc = "rendered"
    /\ report_data' = parse_report_file(ReportFile)
    /\ pc' = "scraped"
    /\ UNCHANGED <<analyzer, owner, repo, html, indexer, lookup>>

\* get_metric_value('PRs Merged') of the per-user summary
LookupMerged ==
    /\ pc = "scraped"
    /\ Truthy(report_data)
    /\ metrics' = report_data[1].metrics
    /\ label_pattern' = PRsMergedPattern
    /\ LET r == get_metric_value_summary(metrics', label_pattern')
       IN  /\ clean_value' = r.clean_value
           /\ metric_value' = Some(r.value)
    /\ pc' = "looked"
    /\ UNCHANGED <<analyzer, owner, repo, html, report_data, indexer>>

ReportNext == GenerateReport \/ ParseReport \/ LookupMerged

ReportSpec == ReportInit /\ [][ReportNext]_vars

\* C18: the scrape of a rendered report recovers the username and the
\* owner/repo of the analyzer, and the 'PRs Merged' lookup recovers the
\* number of merged pull requests
C18_RoundTrip ==
    /\ pc \in {"scraped", "looked"} =>
           /\ Truthy(report_data)
           /\ report_data[1].username = <<username>>
           /\ report_data[1].repo = <<owner, "/", repo>>
    /\ pc = "looked" =>
           metric_value = Some(Len(stats.pull_requests_merged))

(***************************************************************************)
(* generate_team_index: main and generate_index_html                       *)
(***************************************************************************)
MaxFiles == 2

\* the order of str: usernames compare by code point, upper case first
CodePoint(name) ==
    CASE name = "Alice" -> 1
      [] name = "alice" -> 2
      [] name = "bob" -> 3

\* text1 < text2 for two names
NameLess(text1, text2) == CodePoint(text1[1]) < CodePoint(text2[1])

\* key=lambda x: (x['date'], x['username']), reverse=True
NewestFirst(x, y) ==
    \/ x.date > y.date
    \/ x.date = y.date /\ NameLess(y.username, x.username)

\* no second sort: the list keeps the order of the first
KeepsFirstOrder(x, y) == FALSE

\* the second sort by the username as it is
ByUsername(x, y) == NameLess(x.username, y.username)

\* key=lambda r: r['username'].lower()
ByLowerUsername(x, y) ==
    CodePoint(lower(x.username[1])) < CodePoint(lower(y.username[1]))

\* x sorts before y in the order of a sort
Precedes(order, x, y) ==
    CASE order = "newest_first" -> NewestFirst(x, y)
      [] order = "lower_username" -> ByLowerUsername(x, y)

\* list.sort and sorted, a stable sort: an element comes after those that
\* sort before it and after the earlier elements that it does not sort
\* before
Sorted(list, order) ==
    LET rank(i) ==
            1 + Cardinality({j \in 1..Len(list) :
                                \/ Precedes(order, list[j], list[i])
                                \/ j < i /\ ~Precedes(order, list[i], list[j])})
    IN  [k \in 1..Len(list) |->
            list[CHOOSE i \in 1..Len(list) : rank(i) = k]]

\* one row of the detail table
DetailRow(report) ==
    [date |-> report.date,
     filename |-> report.filename,
     username |-> report.username,
     repo |-> report.repo,
     prs_merged |-> get_metric_value_detail(report.metrics,
                                            PRsMergedPattern).value,
     commits |-> get_metric_value_detail(report.metrics,
                                         CommitsPattern).value]

\* user_summary with the date of the user's last report in the list
UserSummaryLastDate(list, user) ==
    LET mine == {i \in 1..Len(list) : list[i].username = user}
        last_one == CHOOSE i \in mine : \A j \in mine : j <= i
    IN  IF mine = {} THEN [prs_merged |-> 0, date |-> None]
        ELSE [prs_merged |->
                  SumSeq([i \in 1..Len(list) |->
                             IF i \in mine
                             THEN get_metric_value_summary(
                                      list[i].metrics, PRsMergedPattern).value
                             ELSE 0]),
              date |-> Some(list[last_one].date)]

\* user_summary after the loop over reports, for one username
RECURSIVE UserSummary(_, _)
UserSummary(list, user) ==
    IF list = <<>> THEN [prs_merged |-> 0, date |-> None]
    ELSE LET report == list[Len(list)]
             before == UserSummary(SubSeq(list, 1, Len(list) - 1), user)
         IN  IF report.username /= user THEN before
             ELSE [prs_merged |-> before.prs_merged
                       + get_metric_value_summary(report.metrics,
                                                  PRsMergedPattern).value,
                   date |-> IF before.date = None
                               \/ report.date > before.date[1]
                            THEN Some(report.date) ELSE before.date]

\* the keys of user_summary in descending order
SummaryKeysDescending(list) ==
    LET keys == {list[i].username : i \in 1..Len(list)}
    IN  CHOOSE s \in [1..Cardinality(keys) -> keys] :
            \A i, j \in 1..Cardinality(keys) :
                i < j => NameLess(s[j], s[i])

\* sorted(user_summary.keys())
SummaryKeys(list) ==
    LET keys == {list[i].username : i \in 1..Len(list)}
    IN  CHOOSE s \in [1..Cardinality(keys) -> keys] :
            \A i, j \in 1..Cardinality(keys) :
                i < j => NameLess(s[i], s[j])

\* one row of the summary table; user_names.json is absent, so the real
\* name falls back to the username
SummaryRow(list, user) ==
    [date |-> UserSummary(list, user).date[1],
     username |-> user,
     real_name |-> user,
     prs_merged |-> UserSummary(list, user).prs_merged]

\* what generate_index_html writes for the reports it is given
generate_index_html(list) ==
    LET sorted_list == Sorted(list, "newest_first")
        sorted_reports == Sorted(sorted_list, "lower_username")
        keys == SummaryKeys(sorted_list)
    IN  [reports |-> sorted_list,
         rows |-> [i \in 1..Len(sorted_reports) |->
                      DetailRow(sorted_reports[i])],
         summary_rows |-> [i \in 1..Len(keys) |->
                              SummaryRow(sorted_list, keys[i])],
         total_reports |-> Len(sorted_list),
         unique_users |->
             Cardinality({list[i].username : i \in 1..Len(list)}),
         unique_repos |-> Cardinality({list[i].repo : i \in 1..Len(list)})]

\* the documents of reports/team: a header with or without the repo and
\* the username marker, and two metric cards
IndexDocument(repo_text, user_text, merged_text) ==
    Div("container",
        Indent \o
        Div("header",
            (IF Truthy(repo_text)
             THEN Indent \o Div("repo", Tokenize(repo_text[1])) ELSE <<>>)
            \o (IF Truthy(user_text)
                THEN Indent \o Div("username", Tokenize(user_text[1]))
                ELSE <<>>)
            \o Indent)
        \o Indent \o
        Div("metrics-grid",
            MetricCard(PRsMergedLabel, merged_text, <<>>)
            \o MetricCard(CommitsLabel, <<"7">>, <<>>)
            \o Indent)
        \o Indent)

IndexUsers == {"Alice", "alice", "bob"}

RepoOf(user) == IF user = "bob" THEN <<"octo", "/", "docs">>
                ELSE <<"acme", "/", "app">>

IndexDocuments ==
    {IndexDocument(Some(RepoOf(u)), Some(<<"@", u>>), m) :
        u \in IndexUsers, m \in {<<"1">>, <<"2">>}}
    \cup {IndexDocument(None, Some(<<"@", "bob">>), <<"1">>),
          IndexDocument(Some(RepoOf("bob")), None, <<"1">>)}

\* the names of the files, in the order glob lists them
FileNames == <<"a.html", "b.html", "c.html", "index.html">>

\* a file: its name, the date in its name if there is one, the day it was
\* last modified, and its content.  The file named index.html holds a
\* document that would parse as a report.
Files(name) ==
    IF name = "index.html"
    THEN {[filename |-> name, stem_date |-> None, mtime |-> 2,
           content |-> IndexDocument(Some(RepoOf("alice")),
                                     Some(<<"@", "alice">>), <<"1">>)]}
    ELSE [filename : {name}, stem_date : {None, Some(1)}, mtime : {2},
          content : IndexDocuments]

Directories ==
    {d \in SeqsUpTo(UNION {Files(FileNames[i]) : i \in 1..Len(FileNames)},
                    MaxFiles) :
        \A i, j \in 1..Len(d) :
            i < j => \E k, l \in 1..Len(FileNames) :
                         /\ k < l
                         /\ d[i].filename = FileNames[k]
                         /\ d[j].filename = FileNames[l]}

IndexInit ==
    /\ startdate = None
    /\ username \in Usernames
    /\ stats = InitStats
    /\ since_date = None
    /\ end_date = None
    /\ pc = "scan"
    /\ calls = 0
    /\ returned = 0
    /\ page = 1
    /\ items = <<>>
    /\ acc = <<>>
    /\ last = NoRequest
    /\ prs = <<>>
    /\ reviews = <<>>
    /\ closed_issues = <<>>
    /\ issue_comments = <<>>
    /\ changes = 0
    /\ size = "xs"
    /\ owner = "acme"
    /\ repo = "app"
    /\ html = None
    /\ report_data = None
    /\ directory \in Directories
    /\ html_files = <<>>
    /\ reports = <<>>
    /\ index = None
    /\ metrics = <<>>
    /\ label_pattern = <<>>
    /\ clean_value = None
    /\ metric_value = None

\* the glob with index.html left in
ScanTeamDirKeepsIndex ==
    /\ pc = "scan"
    /\ html_files' = directory
    /\ pc' = IF html_files' = <<>> THEN "no_files" ELSE "parse"
    /\ UNCHANGED <<analyzer, owner, repo, html, report_data, directory,
                   reports, index, lookup>>

\* main: the glob, without index.html
ScanTeamDir ==
    /\ pc = "scan"
    /\ html_files' = SelectSeq(directory,
                               LAMBDA f : f.filename /= "index.html")
    /\ pc' = IF html_files' = <<>> THEN "no_files" ELSE "parse"
    /\ UNCHANGED <<analyzer, owner, repo, html, report_data, directory,
                   reports, index, lookup>>

\* main: one round of the loop over html_files
ParseReportFile ==
    /\ pc = "parse"
    /\ report_data' = parse_report_file(Head(html_files))
    /\ reports' = IF Truthy(report_data') THEN Append(reports, report_data'[1])
                  ELSE reports
    /\ html_files' = Tail(html_files)
    /\ pc' = IF html_files' /= <<>> THEN "parse"
             ELSE IF reports' = <<>> THEN "no_reports"
             ELSE "generate"
    /\ UNCHANGED <<analyzer, owner, repo, html, directory, index, lookup>>

\* main: generate_index_html(reports, index_path), which sorts reports
GenerateIndex ==
    /\ pc = "generate"
    /\ LET out == generate_index_html(reports)
       IN  /\ reports' = out.reports
           /\ index' = Some([rows |-> out.rows,
                             summary_rows |-> out.summary_rows,
                             total_reports |-> out.total_reports,
                             unique_users |-> out.unique_users,
                             unique_repos |-> out.unique_repos])
    /\ pc' = "written"
    /\ UNCHANGED <<analyzer, owner, repo, html, report_data, directory,
                   html_files, lookup>>

IndexNext == ScanTeamDir \/ ParseReportFile \/ GenerateIndex

IndexSpec == IndexInit /\ [][IndexNext]_vars

\* the files main parses, and those of them that lack a marker
Scanned == SelectSeq(directory, LAMBDA f : f.filename /= "index.html")

HasMarker(file, class) ==
    \E i \in 1..Len(file.content) :
        file.content[i] = StartTag("div", class)

LacksMarker(file) == ~HasMarker(file, "username") \/ ~HasMarker(file, "repo")

\* the files main has parsed so far
Parsed == SubSeq(Scanned, 1, Len(Scanned) - Len(html_files))

\* C19: a file without the username marker or without the repo marker gives
\* no report: parse_report_file returns None for it, main goes on to the
\* next file or to the index, and the file has no entry in reports, no
\* detail row, no share in a summary row and no share in the report count
C19_UnusableFileSkipped ==
    /\ \A i \in 1..Len(Scanned) :
           LacksMarker(Scanned[i]) =>
               /\ parse_report_file(Scanned[i]) = None
               /\ \A j \in 1..Len(reports) :
                      reports[j].filename /= Scanned[i].filename
               /\ pc = "written" =>
                      \A j \in 1..Len(index[1].rows) :
                          index[1].rows[j].filename /= Scanned[i].filename
    /\ pc \in {"parse", "generate", "no_reports", "written"} =>
           /\ Len(reports) =
                  Cardinality({i \in 1..Len(Parsed) : ~LacksMarker(Parsed[i])})
           /\ pc = "no_reports" <=>
                  /\ html_files = <<>>
                  /\ \A i \in 1..Len(Scanned) : LacksMarker(Scanned[i])
    /\ pc = "written" =>
           LET usable == SelectSeq(Scanned, LAMBDA f : ~LacksMarker(f))
               users == {parse_report_file(usable[i])[1].username :
                             i \in 1..Len(usable)}
               share(f, user) ==
                   IF parse_report_file(f)[1].username = user
                   THEN get_metric_value_summary(
                            parse_report_file(f)[1].metrics,
                            PRsMergedPattern).value
                   ELSE 0
           IN  /\ index[1].total_reports = Len(usable)
               /\ Len(index[1].rows) = Len(usable)
               /\ {index[1].summary_rows[j].username :
                       j \in 1..Len(index[1].summary_rows)} = users
               /\ \A j \in 1..Len(index[1].summary_rows) :
                      index[1].summary_rows[j].prs_merged =
                          SumSeq([i \in 1..Len(usable) |->
                                     share(usable[i],
                                           index[1].summary_rows[j].username)])

\* an index written from a directory whose first file has no repo marker
C19_Witness ==
    /\ pc = "written"
    /\ Len(Scanned) = 2
    /\ ~HasMarker(Scanned[1], "repo")
    /\ HasMarker(Scanned[1], "username")
    /\ index[1].total_reports = 1
    /\ Len(index[1].summary_rows) = 1
    /\ index[1].summary_rows[1].username = <<"alice">>

\* the summary rows and the detail rows of the index that was written
summary_rows == index[1].summary_rows
rows == index[1].rows

\* the merged-PR metric of a scraped report
MergedOf(report) ==
    get_metric_value_summary(report.metrics, PRsMergedPattern).value

\* C22: the summary row of a user shows the latest date of the user's reports
\* and the sum of their merged-PR metrics, whatever the order of the files
C22_SummaryMaxDateAndSum ==
    pc = "written" =>
        /\ \A i \in 1..Len(reports) :
               \E j \in 1..Len(summary_rows) :
                   summary_rows[j].username = reports[i].username
        /\ \A j \in 1..Len(summary_rows) :
               LET mine == {i \in 1..Len(reports) :
                               reports[i].username = summary_rows[j].username}
               IN  /\ mine /= {}
                   /\ \E i \in mine : summary_rows[j].date = reports[i].date
                   /\ \A i \in mine : summary_rows[j].date >= reports[i].date
                   /\ summary_rows[j].prs_merged =
                          SumSeq([i \in 1..Len(reports) |->
                                     IF i \in mine THEN MergedOf(reports[i])
                                     ELSE 0])

\* two reports of alice, the older one listed first: date 2 and 1 + 2 merged
C22_Witness ==
    /\ pc = "written"
    /\ Len(Scanned) = 2
    /\ ReportDate(Scanned[1]) = 1
    /\ ReportDate(Scanned[2]) = 2
    /\ Len(summary_rows) = 1
    /\ summary_rows[1] = [date |-> 2, username |-> <<"alice">>,
                          real_name |-> <<"alice">>, prs_merged |-> 3]

\* C23: the summary table has one row for every username of the reports and
\* no other row, in ascending order of the usernames, and as many rows as
\* the 'Team Members' count
C23_OneSummaryRowPerUser ==
    pc = "written" =>
        /\ {summary_rows[j].username : j \in 1..Len(summary_rows)} =
               {reports[i].username : i \in 1..Len(reports)}
        /\ \A j, k \in 1..Len(summary_rows) :
               j < k => NameLess(summary_rows[j].username,
                                 summary_rows[k].username)
        /\ Len(summary_rows) = index[1].unique_users

\* two users whose names differ in case only, and one more
C23_Witness ==
    /\ pc = "written"
    /\ Len(reports) = 2
    /\ Len(summary_rows) = 2
    /\ summary_rows[1].username = <<"Alice">>
    /\ summary_rows[2].username = <<"alice">>
    /\ index[1].unique_users = 2

\* C24: the detail table has one row for every report, none twice, in
\* ascending order of the lower-cased usernames, whatever the order the
\* first sort gave the list
C24_DetailRowsByLowerUsername ==
    pc = "written" =>
        /\ Len(rows) = Len(reports)
        /\ \A i \in 1..Len(reports) :
               Cardinality({j \in 1..Len(rows) :
                               /\ rows[j].filename = reports[i].filename
                               /\ rows[j].username = reports[i].username
                               /\ rows[j].date = reports[i].date
                               /\ rows[j].repo = reports[i].repo}) = 1
        /\ \A j, k \in 1..Len(rows) :
               j < k => CodePoint(lower(rows[j].username[1]))
                            <= CodePoint(lower(rows[k].username[1]))

\* alice's older report is listed before bob's newer one
C24_Witness ==
    /\ pc = "written"
    /\ Len(rows) = 2
    /\ rows[1].username = <<"Alice">>
    /\ rows[1].date = 1
    /\ rows[2].username = <<"bob">>
    /\ rows[2].date = 2
    /\ reports[1].username = <<"bob">>

\* C29: detail rows whose usernames are equal but for case are in descending
\* order of date and, for the same date, of username
C29_StableWithinUser ==
    pc = "written" =>
        \A j, k \in 1..Len(rows) :
            (j < k /\ lower(rows[j].username[1]) = lower(rows[k].username[1]))
                => \/ rows[j].date > rows[k].date
                   \/ /\ rows[j].date = rows[k].date
                      /\ ~NameLess(rows[j].username, rows[k].username)

\* alice and Alice on the same date: alice, the greater, is listed first
C29_Witness ==
    /\ pc = "written"
    /\ Len(rows) = 2
    /\ rows[1].username = <<"alice">>
    /\ rows[2].username = <<"Alice">>
    /\ rows[1].date = rows[2].date
    /\ Scanned[1].content /= Scanned[2].content
    /\ parse_report_file(Scanned[1])[1].username = <<"Alice">>

\* C25: with no file but index.html in the directory main stops after the
\* glob with its "No report files found" message: nothing is parsed and no
\* index is written; and the file named index.html is never parsed, never a
\* report and never a row
C25_NoFilesNoIndex ==
    /\ (pc /= "scan" /\ Scanned = <<>>) =>
           /\ pc = "no_files"
           /\ report_data = None
           /\ reports = <<>>
           /\ index = None
    /\ pc = "no_files" => Scanned = <<>>
    /\ \A i \in 1..Len(html_files) : html_files[i].filename /= "index.html"
    /\ \A i \in 1..Len(reports) : reports[i].filename /= "index.html"
    /\ pc = "written" =>
           /\ \A j \in 1..Len(rows) : rows[j].filename /= "index.html"
           /\ index[1].total_reports = Len(Scanned)
                  - Cardinality({i \in 1..Len(Scanned) :
                                    parse_report_file(Scanned[i]) = None})

\* the run ended at the message with only index.html in the directory
C25_Witness ==
    /\ pc = "no_files"
    /\ Len(directory) = 1
    /\ directory[1].filename = "index.html"
    /\ parse_report_file(directory[1]) /= None
    /\ index = None

(***************************************************************************)
(* main given a --startdate that is no date.                               *)
(***************************************************************************)
\* the --startdate argument is a text strptime rejects
InvalidStartDate == Truthy(startdate) /\ startdate[1] \notin Days

Line(label, value) == [key |-> label, value |-> value]

\* a section heading with the counts in its parentheses
Heading(label, counts) == [key |-> label, counts |-> counts]

\* the section headings with counts: written when the list is not empty
Headings(st, on_reviews, on_opened, on_closed, on_comments, unique_prs) ==
    LET unique_issues ==
            Cardinality({st.issue_comments[i].issue_number :
                             i \in 1..Len(st.issue_comments)})
    IN  (IF st.pull_requests_reviewed /= <<>>
         THEN <<Heading(on_reviews, <<str(Len(st.pull_requests_reviewed)),
                                    str(unique_prs)>>)>>
         ELSE <<>>)
        \o (IF st.issues_opened /= <<>>
            THEN <<Heading(on_opened, <<str(Len(st.issues_opened))>>)>>
            ELSE <<>>)
        \o (IF st.issues_closed /= <<>>
            THEN <<Heading(on_closed, <<str(Len(st.issues_closed))>>)>>
            ELSE <<>>)
        \o (IF st.issue_comments /= <<>>
            THEN <<Heading(on_comments, <<str(Len(st.issue_comments)),
                                       str(unique_issues)>>)>>
            ELSE <<>>)

\* _generate_text_report: total_prs and total_merged
total_prs(st) == Len(st.pull_requests_opened)
total_merged(st) == Len(st.pull_requests_merged)

\* _generate_text_report: the summary statistics, the size distribution and
\* the section headings
_generate_text_report(st) ==
    LET unique_prs ==
            get(st.unique_prs_reviewed,
                Cardinality({st.pull_requests_reviewed[i].pr_number :
                                 i \in 1..Len(st.pull_requests_reviewed)}))
        unique_issues ==
            Cardinality({st.issue_comments[i].issue_number :
                             i \in 1..Len(st.issue_comments)})
        unique_count ==
            Cardinality({st.pull_requests_reviewed[i].pr_number :
                             i \in 1..Len(st.pull_requests_reviewed)})
    IN  [lines |->
            <<Line("Pull Requests Merged:", str(total_merged(st))),
              Line("Reviews Given:",
                   str(get(st.total_reviews_given,
                           Len(st.pull_requests_reviewed)))),
              Line("Unique PRs Reviewed:", str(unique_prs)),
              Line("Issues Opened:", str(Len(st.issues_opened))),
              Line("Issues Closed:", str(Len(st.issues_closed))),
              Line("Issue Comments:", str(Len(st.issue_comments))),
              Line("Unique Issues Commented:", str(unique_issues)),
              Line("Commits in PRs:", str(get(st.total_commits_in_prs, 0))),
              Line("Direct Commits:", str(Len(st.commits_authored))),
              Line("Total Lines Added:", <<"+">> \o str(st.total_additions)),
              Line("Total Lines Deleted:",
                   <<"-">> \o str(st.total_deletions)),
              Line("Total Files Changed:", str(st.total_files_changed)),
              Line("XS", str(st.pr_sizes["xs"])),
              Line("S", str(st.pr_sizes["s"])),
              Line("M", str(st.pr_sizes["m"])),
              Line("L", str(st.pr_sizes["l"])),
              Line("XL", str(st.pr_sizes["xl"])),
              Line("XXL", str(st.pr_sizes["xxl"]))>>,
         headings |->
            Headings(st, "PULL REQUESTS REVIEWED", "ISSUES OPENED",
                     "ISSUES CLOSED BY USER", "ISSUE COMMENTS",
                     unique_count)]

\* _generate_html_report: the cards and the section headings of the document
HtmlNumbers(st) ==
    [cards |-> MetricCards(st),
     size_cards |-> SizeCards(st),
     headings |->
        Headings(st, "Pull Requests Reviewed", "Issues Opened",
                 "Issues Closed by", "Issue Comments",
                 HtmlTotals(st).unique_prs_reviewed)]

\* the keys analyze_activity adds to self.stats
AddedKeys ==
    {"total_commits_in_prs", "total_reviews_given", "unique_prs_reviewed"}

\* the keys of self.stats whose value is a list
ListKeys ==
    {"pull_requests_opened", "pull_requests_merged", "pull_requests_closed",
     "pull_requests_reviewed", "issues_opened", "issues_closed",
     "issue_comments", "commits_authored"}

\* json.dumps(self.stats): a number is written as its digits, a list as the
\* array of its records, and a key that was never set has no member
_generate_json_report(st) ==
    [k \in DOMAIN st |->
        IF k \in ListKeys THEN st[k]
        ELSE IF k = "pr_sizes" THEN [c \in DOMAIN st[k] |-> str(st[k][c])]
        ELSE IF k \in AddedKeys
        THEN (IF st[k] = None THEN None ELSE Some(str(st[k][1])))
        ELSE str(st[k])]

\* the pull requests, reviews, issues and comments of the statistics states
FormatPRs ==
    {pr \in UNION {PullRequest(n) : n \in Numbers} :
        /\ pr.state = "closed"
        /\ pr.number = 2 => pr.additions = 5}
FormatReviews ==
    {UserReviews(<<[login |-> "Alice", state |-> "APPROVED",
                    submitted_at |-> Some(<<0, 1>>)]>>,
                 pr, "alice")[1] : pr \in FormatPRs}
FormatIssues == {SearchItem(n, IssueState(n)) : n \in Numbers}
FormatComments ==
    {UserComments(<<[login |-> "Alice", created_at |-> <<0, 1>>]>>,
                  issue, "alice")[1] : issue \in FormatIssues}

\* stats after analyze_activity, called on the statistics st
AnalyzedFrom(st, pulls, by_user, issues, issues_closed, comments) ==
    ProcessComments(
        ProcessClosedIssues(
            ProcessIssues(
                ProcessReviews(ProcessPRs(st, pulls), by_user, 0),
                issues),
            issues_closed),
        comments, 0)

\* stats of a new analyzer, after one call and after a second call
FormatStats ==
    LET once == AnalyzedFrom(InitStats,
                             <<CHOOSE pr \in FormatPRs :
                                   pr.number = 1 /\ Truthy(pr.merged_at)>>,
                             <<>>, <<>>, <<>>, <<>>)
    IN  {InitStats} \cup
        {AnalyzedFrom(st, pulls, by_user, issues, issues_closed, comments) :
            st \in {InitStats, once},
            pulls \in SearchPages(FormatPRs, MaxReportPRs),
            by_user \in SeqsUpTo(FormatReviews, MaxReportPRs),
            issues \in SearchPages(FormatIssues, 1),
            issues_closed \in {<<>>, <<SearchItem(2, "closed")>>},
            comments \in SeqsUpTo(FormatComments, MaxReportPRs)}

FormatInit ==
    /\ startdate = None
    /\ username \in Usernames
    /\ stats \in FormatStats
    /\ since_date = Some(Now - timedelta(1))
    /\ end_date = Some(Now)
    /\ pc = "text"
    /\ calls = 1
    /\ returned = 0
    /\ page = 1
    /\ items = <<>>
    /\ acc = <<>>
    /\ last = NoRequest
    /\ prs = <<>>
    /\ reviews = <<>>
    /\ closed_issues = <<>>
    /\ issue_comments = <<>>
    /\ changes = 0
    /\ size = "xs"
    /\ owner = "acme"
    /\ repo = "app"
    /\ html = None
    /\ report_data = None
    /\ directory = <<>>
    /\ html_files = <<>>
    /\ reports = <<>>
    /\ index = None
    /\ metrics = <<>>
    /\ label_pattern = <<>>
    /\ clean_value = None
    /\ metric_value = None

\* generate_report(format="text"); metrics holds the report
GenerateText ==
    /\ pc = "text"
    /\ metrics' = _generate_text_report(stats)
    /\ pc' = "html"
    /\ UNCHANGED <<analyzer, owner, repo, html, report_data, indexer,
                   label_pattern, clean_value, metric_value>>

\* generate_report(format="html") of the same statistics
GenerateHtml ==
    /\ pc = "html"
    /\ html' = Some(HtmlNumbers(stats))
    /\ pc' = "json"
    /\ UNCHANGED <<analyzer, owner, repo, report_data, indexer, lookup>>

\* generate_report(format="json") of the same statistics
GenerateJson ==
    /\ pc = "json"
    /\ report_data' = Some(_generate_json_report(stats))
    /\ pc' = "formatted"
    /\ UNCHANGED <<analyzer, owner, repo, html, indexer, lookup>>

FormatNext == GenerateText \/ GenerateHtml \/ GenerateJson

FormatSpec == FormatInit /\ [][FormatNext]_vars

\* the value of the text line with a label
LineValue(report, label) ==
    LET i == CHOOSE k \in 1..Len(report.lines) : report.lines[k].key = label
    IN  report.lines[i].value

\* the metric card with a label
CardOf(doc, label) ==
    doc.cards[CHOOSE k \in 1..Len(doc.cards) : doc.cards[k].label = label]

\* the member of the JSON object if it has it, or else what its lists give
Member(json, key, otherwise) ==
    IF json[key] = None THEN str(otherwise) ELSE json[key][1]

\* the distinct values of a field among the records of a list
Distinct(list, field) == Cardinality({list[i][field] : i \in 1..Len(list)})

\* C27: for the statistics of a new analyzer and after one or two calls of
\* analyze_activity, the text report and the HTML report show the same value
\* for the merged-PR count, reviews given, unique PRs reviewed, issues
\* opened, issues closed, issue comments, unique issues commented, commits in
\* PRs, lines added, lines deleted and the six size-class counts, in the
\* summary as in the section headings, and each value is the member of the
\* JSON object, or the length or distinct count of its lists.
C27_FormatsShowSameNumbers ==
    pc = "formatted" =>
        LET text == metrics
            doc == html[1]
            json == report_data[1]
            classes == <<"xs", "s", "m", "l", "xl", "xxl">>
            names == <<"XS", "S", "M", "L", "XL", "XXL">>
        IN  /\ LineValue(text, "Pull Requests Merged:")
                   = CardOf(doc, PRsMergedLabel).value
            /\ LineValue(text, "Pull Requests Merged:")
                   = str(Len(json.pull_requests_merged))
            /\ LineValue(text, "Reviews Given:")
                   = CardOf(doc, ReviewsGivenLabel).value
            /\ LineValue(text, "Reviews Given:")
                   = Member(json, "total_reviews_given",
                            Len(json.pull_requests_reviewed))
            /\ LineValue(text, "Unique PRs Reviewed:")
                       \o <<" ", "unique", " ", "PRs">>
                   = CardOf(doc, ReviewsGivenLabel).description
            /\ LineValue(text, "Unique PRs Reviewed:")
                   = Member(json, "unique_prs_reviewed",
                            Distinct(json.pull_requests_reviewed,
                                     "pr_number"))
            /\ LineValue(text, "Issues Opened:")
                   = CardOf(doc, IssuesOpenedLabel).value
            /\ LineValue(text, "Issues Opened:")
                   = str(Len(json.issues_opened))
            /\ LineValue(text, "Issues Closed:")
                   = CardOf(doc, IssuesClosedLabel).value
            /\ LineValue(text, "Issues Closed:")
                   = str(Len(json.issues_closed))
            /\ LineValue(text, "Issue Comments:")
                   = CardOf(doc, IssueCommentsLabel).value
            /\ LineValue(text, "Issue Comments:")
                   = str(Len(json.issue_comments))
            /\ LineValue(text, "Unique Issues Commented:")
                       \o <<" ", "unique", " ", "issues">>
                   = CardOf(doc, IssueCommentsLabel).description
            /\ LineValue(text, "Unique Issues Commented:")
                   = str(Distinct(json.issue_comments, "issue_number"))
            /\ LineValue(text, "Commits in PRs:")
                   = CardOf(doc, CommitsLabel).value
            /\ LineValue(text, "Commits in PRs:")
                   = Member(json, "total_commits_in_prs", 0)
            /\ LineValue(text, "Total Lines Added:")
                   = CardOf(doc, LinesAddedLabel).value
            /\ LineValue(text, "Total Lines Added:")
                   = <<"+">> \o json.total_additions
            /\ LineValue(text, "Total Lines Deleted:")
                   = CardOf(doc, LinesDeletedLabel).value
            /\ LineValue(text, "Total Lines Deleted:")
                   = <<"-">> \o json.total_deletions
            /\ \A i \in 1..Len(classes) :
                   /\ doc.size_cards[i].class = classes[i]
                   /\ LineValue(text, names[i])
                          = str(doc.size_cards[i].count)
                   /\ LineValue(text, names[i]) = json.pr_sizes[classes[i]]
            /\ Len(text.headings) = Len(doc.headings)
            /\ \A i \in 1..Len(text.headings) :
                   text.headings[i].counts = doc.headings[i].counts

\* two calls of analyze_activity: the commits in PRs are those of the second
\* call only, a pull request was opened and not merged, and two reviews are
\* on one pull request
C27_Witness ==
    /\ pc = "formatted"
    /\ Len(stats.pull_requests_opened) = 2
    /\ Len(stats.pull_requests_merged) = 1
    /\ stats.total_commits_in_prs = Some(2)
    /\ stats.total_reviews_given = Some(2)
    /\ stats.unique_prs_reviewed = Some(1)
    /\ LineValue(metrics, "Unique PRs Reviewed:") = <<"1">>
    /\ report_data[1].total_reviews_given = Some(<<"2">>)

(***************************************************************************)
(* the metric cards of a report and the entries of its scrape              *)
(***************************************************************************)
\* the entry parse_report_file has for each metric card of the document, in
\* the order of the document
Scraped ==
    LET entries == report_data[1].metrics
        cards == MetricCards(stats)
    IN  /\ Len(entries) = Len(cards)
        /\ \A i \in 1..Len(cards) :
               /\ entries[i].key = cards[i].label
               /\ entries[i].value = cards[i].value

\* C28: the scrape of a document _generate_html_report produced has exactly
\* eight metric entries, one per metric card and in the order of the cards
\* (PRs Merged, Lines Added, Lines Deleted, Commits in PRs, Reviews Given,
\* Issues Opened, Issues Closed, Issue Comments), each with the value of its
\* own card.
C28_EightMetricEntries ==
    pc \in {"scraped", "looked"} =>
        /\ Truthy(report_data)
        /\ Len(report_data[1].metrics) = 8
        /\ Scraped

(***************************************************************************)
(* the request for one hit of a search gets a non-success response         *)
(***************************************************************************)
\* the fetch a request for one hit belongs to
FetchOf(p) ==
    CASE p = "pulls" -> "fetch_user_prs"
      [] p = "reviews" -> "fetch_user_reviews"
      [] p = "events" -> "fetch_user_closed_issues"
      [] p = "comments" -> "fetch_user_issue_comments"

\* what the fetch has collected once this step is over: the list it goes on
\* with, or the list it returns when the step ends the fetch
Collected ==
    IF Stage(pc') = Stage(pc) THEN acc' ELSE ReturnedBy(FetchOf(pc))

\* C30: a non-success response to the request for one hit (the details of a
\* PR, the reviews of a PR, the events of an issue, the comments of an issue)
\* drops that hit only: what was collected from the hits before it is kept
\* as it is, a success only appends to it, and whatever the response the next
\* hit of the page is visited next; after the last hit the list is returned,
\* or the next page is searched.
C30_FailedLookupDropsOneItem ==
    [][(pc \in Lookups /\ last'.kind = pc /\ last'.resp /= NoResponse) =>
          /\ NonSuccess(last'.resp) => Collected = acc
          /\ Len(Collected) >= Len(acc)
          /\ SubSeq(Collected, 1, Len(acc)) = acc
          /\ IF Tail(items) /= <<>>
             THEN pc' = pc /\ items' = Tail(items)
             ELSE \/ Stage(pc') = Stage(pc) + 1
                  \/ pc' = FetchOf(pc) /\ page' = page + 1]_vars

\* the details of the first pull request came, the request for the second
\* got a non-success response, and fetch_user_prs returned the first
C30_Witness ==
    /\ pc = "fetch_user_reviews"
    /\ last.kind = "pulls"
    /\ NonSuccess(last.resp)
    /\ Len(prs) = 1
    /\ Len(stats.pull_requests_opened) = 1

====
